---- MODULE Spec2Model ----
\* Poop Quest: the content submission and metadata pipeline.
\*   bot/commands/poop.js        handlePoopCommand (the orchestrator)
\*   bot/utils/file-handler.js   extractContent
\*   ai/content-analyzer.js      ContentAnalyzer
\*   ai/grok-client.js           GrokClient
\*   database/models/post.js     Post
\*   utils/slug-sanitizer.js     generateSlug, cleanUserSlug
\*
\* Strings whose characters matter (slugs, titles, file names) are sequences
\* of one-character strings.  Error messages and reply texts are sequences of
\* words, so that String.prototype.includes is a membership test.
EXTENDS Integers, Sequences, FiniteSets, TLC

\* ------------------------------------------------------------------ bounds
\* Number of !poop messages the bot handles, one after the other.
MaxSubmissions == 2

\* Number of concurrent direct callers of Post.create.
NumCallers == 2

\* Number of !poop messages handled through handlePoopCommandWithRetry.
MaxRetrySubmissions == 1

\* The Post.create call of handlePoopCommand, and those of the direct callers.
HandlerCall == 0

DirectCallers == 1..NumCallers

Callers == {HandlerCall} \cup DirectCallers

None == "none"

\* ----------------------------------------------------------- characters
LowerChars ==
    {"a","b","c","d","e","f","g","h","i","j","k","l","m",
     "n","o","p","q","r","s","t","u","v","w","x","y","z"}

UpperChars ==
    {"A","B","C","D","E","F","G","H","I","J","K","L","M",
     "N","O","P","Q","R","S","T","U","V","W","X","Y","Z"}

DigitChars == {"0","1","2","3","4","5","6","7","8","9"}

SpaceChars == {" "}

\* String.prototype.toLowerCase, one character.
LowerOf ==
    [c \in UpperChars |->
        CASE c = "A" -> "a" [] c = "B" -> "b" [] c = "C" -> "c" [] c = "D" -> "d"
          [] c = "E" -> "e" [] c = "F" -> "f" [] c = "G" -> "g" [] c = "H" -> "h"
          [] c = "I" -> "i" [] c = "J" -> "j" [] c = "K" -> "k" [] c = "L" -> "l"
          [] c = "M" -> "m" [] c = "N" -> "n" [] c = "O" -> "o" [] c = "P" -> "p"
          [] c = "Q" -> "q" [] c = "R" -> "r" [] c = "S" -> "s" [] c = "T" -> "t"
          [] c = "U" -> "u" [] c = "V" -> "v" [] c = "W" -> "w" [] c = "X" -> "x"
          [] c = "Y" -> "y" [] OTHER -> "z"]

ToLowerChar(c) == IF c \in UpperChars THEN LowerOf[c] ELSE c

ToLowerCase(s) == [i \in 1..Len(s) |-> ToLowerChar(s[i])]

\* s.replace(/[^keep]/g, '') : drop every character that is not in keep.
FilterChars(s, keep) == SelectSeq(s, LAMBDA c : c \in keep)

\* s.replace(/[class]+/g, rep) : every maximal run of characters of the class
\* becomes the single character rep.
CollapseRuns(s, class, rep) ==
    LET marked == [i \in 1..Len(s) |->
                     IF s[i] \notin class THEN s[i]
                     ELSE IF i < Len(s) /\ s[i + 1] \in class THEN ""
                     ELSE rep]
    IN  SelectSeq(marked, LAMBDA c : c # "")

\* s.replace(/^[class]+/, '')
TrimLeft(s, class) ==
    IF \A i \in 1..Len(s) : s[i] \in class THEN <<>>
    ELSE LET k == CHOOSE i \in 1..Len(s) :
                      /\ s[i] \notin class
                      /\ \A j \in 1..(i - 1) : s[j] \in class
         IN  SubSeq(s, k, Len(s))

\* s.replace(/[class]+$/, '')
TrimRight(s, class) ==
    IF \A i \in 1..Len(s) : s[i] \in class THEN <<>>
    ELSE LET k == CHOOSE i \in 1..Len(s) :
                      /\ s[i] \notin class
                      /\ \A j \in (i + 1)..Len(s) : s[j] \in class
         IN  SubSeq(s, 1, k)

\* s.substring(0, n)
Substring0(s, n) == SubSeq(s, 1, IF Len(s) < n THEN Len(s) ELSE n)

\* s.trim() === ''
IsBlank(s) == \A i \in 1..Len(s) : s[i] \in SpaceChars

\* message.includes(word) on a message kept as a sequence of words.
Includes(msg, word) == \E i \in 1..Len(msg) : msg[i] = word

\* ------------------------------------------------------ searching strings
\* s, from position i on, reads pat when the case of letters is ignored
\* (flag i); pat is in lower case.
MatchesAt(s, i, pat) ==
    /\ i >= 1
    /\ i + Len(pat) - 1 <= Len(s)
    /\ \A k \in 1..Len(pat) : ToLowerChar(s[i + k - 1]) = pat[k]

\* class* from position i on: the position after the longest run.
RunEnd(s, i, class) ==
    IF \A j \in i..Len(s) : s[j] \in class THEN Len(s) + 1
    ELSE CHOOSE j \in i..Len(s) :
             /\ s[j] \notin class
             /\ \A k \in i..(j - 1) : s[k] \in class

\* [^stops]* from position i on: the position of the first character of
\* stops, Len(s) + 1 when there is none.
FindFirst(s, i, stops) ==
    IF \A j \in i..Len(s) : s[j] \notin stops THEN Len(s) + 1
    ELSE CHOOSE j \in i..Len(s) :
             /\ s[j] \in stops
             /\ \A k \in i..(j - 1) : s[k] \notin stops

\* The position of the first occurrence of pat at or after i, 0 if none.
IndexOfFrom(s, i, pat) ==
    IF \A j \in i..Len(s) : ~MatchesAt(s, j, pat) THEN 0
    ELSE CHOOSE j \in i..Len(s) :
             /\ MatchesAt(s, j, pat)
             /\ \A k \in i..(j - 1) : ~MatchesAt(s, k, pat)

\* -------------------------------------------------------- slug utilities
HyphenChar == {"-"}

AlnumChars == LowerChars \cup UpperChars \cup DigitChars

\* \w of a JavaScript regular expression.
WordChars == AlnumChars \cup {"_"}

\* Characters outside \u0000-~ that stripDiacritics folds, named by
\* code point, with their replacements (diacriticsMap).
DiacriticsMap ==
    [c \in {"U+00E9", "U+00DF", "U+00C6"} |->
        CASE c = "U+00E9" -> <<"e">>
          [] c = "U+00DF" -> <<"s","s">>
          [] OTHER        -> <<"A","E">>]

RECURSIVE stripDiacriticsFrom(_, _)
stripDiacriticsFrom(str, i) ==
    CHOOSE r \in
      { IF k > Len(str) THEN SubSeq(str, i, Len(str))
        ELSE SubSeq(str, i, k - 1) \o DiacriticsMap[str[k]] \o stripDiacriticsFrom(str, k + 1) :
        k \in { FindFirst(str, i, DOMAIN DiacriticsMap) } } : TRUE

stripDiacritics(str) == CHOOSE r \in { stripDiacriticsFrom(x, 1) : x \in {str} } : TRUE

\* customReplacements of cleanUserSlug: symbol -> word.
UserSlugReplacements ==
    [c \in {"&", "@", "#", "%", "$", "+", "="} |->
        CASE c = "&" -> <<"a","n","d">>
          [] c = "@" -> <<"a","t">>
          [] c = "#" -> <<"h","a","s","h">>
          [] c = "%" -> <<"p","e","r","c","e","n","t">>
          [] c = "$" -> <<"d","o","l","l","a","r">>
          [] c = "+" -> <<"p","l","u","s">>
          [] OTHER   -> <<"e","q","u","a","l","s">>]

\* No customReplacements (the default of generateSlug).
NoReplacements == [c \in {} |-> <<>>]

\* slug.replace(new RegExp(find, 'g'), replace) for every entry; no
\* replacement contains a character that another entry finds.
RECURSIVE ApplyReplacementsFrom(_, _, _)
ApplyReplacementsFrom(s, i, repl) ==
    CHOOSE r \in
      { IF k > Len(s) THEN SubSeq(s, i, Len(s))
        ELSE SubSeq(s, i, k - 1) \o repl[s[k]] \o ApplyReplacementsFrom(s, k + 1, repl) :
        k \in { FindFirst(s, i, DOMAIN repl) } } : TRUE

ApplyReplacements(s, repl) ==
    CHOOSE r \in { ApplyReplacementsFrom(x, 1, repl) : x \in {s} } : TRUE

\* Position of the first ">" of s at or after i, 0 when there is none.
FirstClose(s, i) ==
    IF FindFirst(s, i, {">"}) > Len(s) THEN 0 ELSE FindFirst(s, i, {">"})

\* slug.replace(/<[^>]*>/g, ''): a "<" with no ">" after it starts no match,
\* and neither does any "<" after it.
RECURSIVE StripTagsFrom(_, _)
StripTagsFrom(s, i) ==
    CHOOSE r \in
      { IF lt > Len(s) \/ FirstClose(s, lt + 1) = 0 THEN SubSeq(s, i, Len(s))
        ELSE SubSeq(s, i, lt - 1) \o StripTagsFrom(s, FirstClose(s, lt + 1) + 1) :
        lt \in { FindFirst(s, i, {"<"}) } } : TRUE

StripTags(s) == CHOOSE r \in { StripTagsFrom(x, 1) : x \in {s} } : TRUE

\* slug.replace(/[^\w\-\.~]/g, '-')
ReplaceSpecial(s) ==
    [i \in 1..Len(s) |->
        IF s[i] \in WordChars \cup {"-", ".", "~"} THEN s[i] ELSE "-"]

\* slug.lastIndexOf('-'), 0-based, -1 when absent.
LastIndexOfDash(s, i) ==
    IF \A j \in 1..i : s[j] # "-" THEN -1
    ELSE (CHOOSE j \in 1..i : s[j] = "-" /\ \A k \in (j + 1)..i : s[k] # "-") - 1

\* The truncation step of generateSlug.
TruncateSlug(slug, maxLength) ==
    IF Len(slug) > maxLength
    THEN LET cut      == Substring0(slug, maxLength)
             lastDash == LastIndexOfDash(cut, Len(cut))
         IN  IF lastDash * 10 > maxLength * 7
             THEN Substring0(cut, lastDash) ELSE cut
    ELSE slug

\* generateSlug(text, {maxLength, customReplacements}); rnd is the string
\* generateRandomString(6) returns when it is called.  The caller has
\* checked that text is a non-empty string.
generateSlug(text, maxLength, repl, rnd) ==
    LET s1 == ApplyReplacements(text, repl)
        s2 == StripTags(s1)
        s3 == stripDiacritics(s2)
        s4 == ToLowerCase(s3)
        s5 == CollapseRuns(s4, SpaceChars \cup {"_"}, "-")
        s6 == CollapseRuns(s5, HyphenChar, "-")
        s7 == ReplaceSpecial(s6)
        s8 == TrimRight(TrimLeft(s7, {"-", "."}), {"-", "."})
        s9 == CollapseRuns(s8, HyphenChar, "-")
        NonAlnum == {s9[i] : i \in 1..Len(s9)} \ AlnumChars
        s10 == TrimRight(TrimLeft(s9, NonAlnum), NonAlnum)
        s11 == TruncateSlug(s10, maxLength)
    IN  IF Len(s11) < 3 THEN <<"p","o","s","t","-">> \o rnd ELSE s11

\* cleanUserSlug(userInput)
cleanUserSlug(userInput, rnd) ==
    IF userInput = <<>> THEN <<>>
    ELSE generateSlug(userInput, 80, UserSlugReplacements, rnd)

UntitledPost == <<"u","n","t","i","t","l","e","d","-","p","o","s","t">>

\* ContentAnalyzer.generateSlugFromTitle(title); String.prototype.trim takes
\* no argument, so .trim('-') removes white space only.  Each link of the
\* chain is kept as the set of its one value.
generateSlugFromTitle(title) ==
    IF title = <<>> \/ IsBlank(title) THEN UntitledPost
    ELSE LET lower    == { ToLowerCase(t) : t \in {title} }
             kept     == { FilterChars(t, LowerChars \cup DigitChars \cup SpaceChars
                                          \cup HyphenChar) : t \in lower }
             spaces   == { CollapseRuns(t, SpaceChars, "-") : t \in kept }
             hyphens  == { CollapseRuns(t, HyphenChar, "-") : t \in spaces }
             trimmed  == { TrimRight(TrimLeft(t, SpaceChars), SpaceChars) : t \in hyphens }
             cut      == { Substring0(t, 50) : t \in trimmed }
         IN  CHOOSE slug \in { IF t = <<>> THEN UntitledPost ELSE t : t \in cut } : TRUE

\* /^[a-z0-9-]+$/.test(slug)
IsUrlSafe(slug) ==
    /\ slug # <<>>
    /\ \A i \in 1..Len(slug) : slug[i] \in LowerChars \cup DigitChars \cup HyphenChar

\* ------------------------------------------------------------ HTML content
\* An HTML document is a sequence of top-level nodes:
\*   "h1"      <h1>Hello</h1>
\*   "script"  <script>alert(1)</script>
\*   "text"    the bare text  hello world  (no tag)
\* The empty sequence is the empty string.
Nodes == {"h1", "script", "text"}

TagNodes == {"h1", "script"}

\* Number of characters of a node's markup.
NodeLength(n) ==
    CASE n = "h1" -> 14 [] n = "script" -> 25 [] OTHER -> 11

RECURSIVE ContentLength(_)
ContentLength(html) ==
    IF html = <<>> THEN 0 ELSE NodeLength(Head(html)) + ContentLength(Tail(html))

\* ContentAnalyzer.sanitizeHTML: DOMPurify with ALLOWED_TAGS (h1 is listed,
\* script is not and its content is dropped with it).
sanitizeHTML(htmlContent) ==
    SelectSeq(htmlContent, LAMBDA n : n # "script")

\* isValidHtml(content): at least one /<[a-zA-Z][^>]*>/ match.
isValidHtml(content) ==
    /\ content # <<>>
    /\ \E i \in 1..Len(content) : content[i] \in TagNodes

\* The body text of a node (textContent of the parsed document).
NodeText(n) ==
    CASE n = "h1"     -> <<"H","e","l","l","o">>
      [] n = "script" -> <<"a","l","e","r","t","(","1",")">>
      [] OTHER        -> <<"h","e","l","l","o"," ","w","o","r","l","d">>

RECURSIVE extractTextContent(_)
extractTextContent(htmlContent) ==
    IF htmlContent = <<>> THEN <<>>
    ELSE NodeText(Head(htmlContent)) \o extractTextContent(Tail(htmlContent))

\* ------------------------------------------------------------- extraction
\* The text of a message is the sequence of its code spans in order of
\* appearance; kind "html" is a fence tagged html, "fence" any other
\* fenced block, "inline" a single-backtick span.
Block(kind, content) == [kind |-> kind, content |-> content]

\* Index of the first block of m whose kind is in kinds, 0 if none.
RECURSIVE FirstBlock(_, _, _)
FirstBlock(blocks, kinds, i) ==
    IF i > Len(blocks) THEN 0
    ELSE IF blocks[i].kind \in kinds THEN i ELSE FirstBlock(blocks, kinds, i + 1)

\* The inline spans of the text, in order.
InlineBlocks(blocks) == SelectSeq(blocks, LAMBDA b : b.kind = "inline")

RECURSIVE FirstInlineHtml(_)
FirstInlineHtml(spans) ==
    IF spans = <<>> THEN <<>>
    ELSE IF isValidHtml(Head(spans).content) /\ ContentLength(Head(spans).content) > 20
         THEN Head(spans).content
         ELSE FirstInlineHtml(Tail(spans))

\* An extraction that takes the first code span whatever it holds.
extractFromCodeBlockAny(blocks) ==
    IF blocks # <<>> THEN blocks[1].content ELSE <<>>

\* extractFromCodeBlock(messageContent); <<>> stands for null.
extractFromCodeBlock(blocks) ==
    LET h == FirstBlock(blocks, {"html"}, 1)
        g == FirstBlock(blocks, {"html", "fence"}, 1)
    IN  IF h # 0 /\ isValidHtml(blocks[h].content) THEN blocks[h].content
        ELSE IF g # 0 /\ isValidHtml(blocks[g].content) THEN blocks[g].content
        ELSE FirstInlineHtml(InlineBlocks(blocks))

PageHtml == <<"p","a","g","e",".","h","t","m","l">>

NotesTxt == <<"n","o","t","e","s",".","t","x","t">>

\* getFileExtension(filename): the part after the last dot, lower-cased.
RECURSIVE LastDot(_, _)
LastDot(name, i) ==
    IF i = 0 THEN 0 ELSE IF name[i] = "." THEN i ELSE LastDot(name, i - 1)

getFileExtension(filename) ==
    IF filename = <<>> \/ IsBlank(filename) THEN <<>>
    ELSE LET d == LastDot(filename, Len(filename))
         IN  IF d = 0 THEN <<>>
             ELSE ToLowerCase(SubSeq(filename, d, Len(filename)))

AllowedExtensions ==
    { <<".","h","t","m","l">>, <<".","h","t","m">>, <<".","x","h","t","m","l">> }

\* validateAttachment(attachment).isValid
validateAttachment(attachment) ==
    /\ ~attachment.tooLarge
    /\ getFileExtension(attachment.name) \in AllowedExtensions
    /\ ~(attachment.name = <<>> \/ IsBlank(attachment.name))

\* ----------------------------------------------------------------- errors
\* A thrown value: its class, error.code, error.status, the words of
\* error.message, and the slug the message quotes (<<>> when it quotes none).
Err(name, code, message, slug) ==
    [name |-> name, code |-> code, message |-> message, slug |-> slug]

NoError == Err(None, None, <<>>, <<>>)

\* Post.validate(): the list of error strings for the constructed post.
PostValidate(data) ==
    (IF data.slug = <<>> \/ IsBlank(data.slug) THEN <<"Slug is required">> ELSE <<>>)
    \o (IF data.title = <<>> \/ IsBlank(data.title) THEN <<"Title is required">> ELSE <<>>)
    \o (IF data.description = <<>> \/ IsBlank(data.description)
        THEN <<"Description is required">> ELSE <<>>)
    \o (IF data.html_content = <<>> THEN <<"HTML content is required">> ELSE <<>>)
    \o (IF data.discord_user_id = "" THEN <<"Discord user ID is required">> ELSE <<>>)
    \o (IF data.discord_username = "" THEN <<"Discord username is required">> ELSE <<>>)
    \o (IF data.slug # <<>> /\ ~IsUrlSafe(data.slug)
        THEN <<"Slug must contain only lowercase letters, numbers, and hyphens">>
        ELSE <<>>)

ValidationError(errors) ==
    Err("Error", None, <<"Validation failed", ": ">> \o errors, <<>>)

\* new Error(`Post with slug '${post.slug}' already exists`)
SlugExistsError(slug) ==
    Err("Error", None, <<"Post with ", "slug", " '", "${post.slug}", "' already ", "exists">>, slug)

\* The error sqlite3 reports when an INSERT violates UNIQUE(slug).
ConstraintError ==
    Err("Error", "SQLITE_CONSTRAINT",
        <<"SQLITE_CONSTRAINT: UNIQUE constraint failed: posts.", "slug">>, <<>>)

\* Reading .lastID of the value the promisified db.run resolves with.
LastIdTypeError ==
    Err("TypeError", None, <<"Cannot read properties of undefined (reading 'lastID')">>, <<>>)

\* A rejected chat-platform call (sendTyping, reply, edit, delete).
ChatError ==
    Err("DiscordAPIError", "50013", <<"Missing Permissions">>, <<>>)

\* Errors axios.get rejects with while downloading an attachment.
DownloadErrors ==
    { Err("AxiosError", "ENOTFOUND", <<"getaddrinfo ENOTFOUND cdn.discordapp.com">>, <<>>),
      Err("AxiosError", "ECONNABORTED", <<"timeout of 30000ms exceeded">>, <<>>),
      Err("AxiosError", "ERR_BAD_RESPONSE", <<"maxContentLength", " size of 26214400 exceeded">>, <<>>),
      Err("AxiosError", "ERR_BAD_REQUEST", <<"Request failed with status code 404">>, <<>>) }

\* The message chosen by the catch block of handlePoopCommand.
errorMessage(error) ==
    IF Includes(error.message, "Validation failed")
    THEN <<"Invalid content format. Please check your HTML and try again.">>
    ELSE IF Includes(error.message, "slug") /\ Includes(error.message, "exists")
    THEN <<"A post with this title already exists. Please modify your content or title.">>
    ELSE IF Includes(error.message, "API")
    THEN <<"AI analysis service is temporarily unavailable. Please try again later.">>
    ELSE IF Includes(error.message, "Database")
    THEN <<"Database error occurred. Please contact an administrator.">>
    ELSE <<"Failed to process your content. Please try again.">>

\* A catch block that returns no cause.
attachmentErrorTextNone(error) == <<>>

\* The result of extractFromAttachment's catch block.
attachmentErrorText(error) ==
    IF error.code \in {"ENOTFOUND", "ECONNREFUSED"}
    THEN <<"Failed to download file: Network error">>
    ELSE IF error.code = "ECONNABORTED"
    THEN <<"Failed to download file: Request timeout">>
    ELSE IF Includes(error.message, "maxContentLength")
    THEN <<"File is too large (maximum 25MB)">>
    ELSE <<"Failed to process attachment: ">> \o error.message

NoContentText ==
    <<"No HTML content found. Please upload an HTML file or use an html code block">>

NoHtmlText ==
    <<"X ", "No HTML content found. Please upload an HTML file or use a code block with HTML content.">>

ProcessingText == <<"Processing your HTML content...">>

SuccessText == <<"Post Created Successfully!">>

\* --------------------------------------------------------------- analyzer
\* GrokClient: this.maxRetries
ClientMaxRetries == 3

\* ContentAnalyzer.analyzeContent: options.maxRetries
AnalyzerMaxRetries == 2

\* postProcessAnalysis: title.length > 60, description.length > 160
MaxTitleLength == 60

MaxDescriptionLength == 160

\* generateDescriptionFromContent: description.length > 157
MaxSentenceLength == 157

Ellipsis == <<".", ".", ".">>

GenericDescription == <<"U","s","e","r","-","g","e","n","e","r","a","t","e","d"," ","c","o","n","t","e","n","t"," ","s","h","a","r","e","d"," ","v","i","a"," ","D","i","s","c","o","r","d">>

DiscordPost == <<"D","i","s","c","o","r","d"," ","P","o","s","t">>

\* s.trim()
Trim(s) ==
    CHOOSE t \in { TrimRight(l, SpaceChars) : l \in {TrimLeft(s, SpaceChars)} } : TRUE

SentenceEnd == {".", "!", "?"}

\* content.split(/[.!?]+/)
RECURSIVE SplitSentences(_, _)
SplitSentences(s, cur) ==
    IF s = <<>> THEN <<cur>>
    ELSE IF Head(s) \in SentenceEnd
         THEN <<cur>> \o SplitSentences(TrimLeft(s, SentenceEnd), <<>>)
         ELSE SplitSentences(Tail(s), Append(cur, Head(s)))

\* ContentAnalyzer.generateDescriptionFromContent(content)
generateDescriptionFromContent(content) ==
    LET Describe(c) ==
          IF c = <<>> \/ IsBlank(c) THEN GenericDescription
          ELSE LET sentences == SelectSeq(SplitSentences(c, <<>>),
                                          LAMBDA x : Len(Trim(x)) > 10)
               IN  IF sentences # <<>>
                   THEN LET d == Trim(sentences[1])
                        IN  IF Len(d) > MaxSentenceLength
                            THEN Substring0(d, MaxSentenceLength - 3) \o Ellipsis ELSE d
                   ELSE IF Len(c) > MaxSentenceLength
                        THEN Substring0(c, MaxSentenceLength - 3) \o Ellipsis
                        ELSE c
    IN  CHOOSE d \in { Describe(c) : c \in {content} } : TRUE

\* GrokClient.generateFallbackSlug(title): the same chain of replacements as
\* ContentAnalyzer.generateSlugFromTitle.
generateFallbackSlug(title) == generateSlugFromTitle(title)

\* A response of the analysis service: HTTP status (0: no response at all,
\* a network error or the 30 s timeout), the shape of a 200 body, and the
\* metadata of a well-formed body.
Metadata(slug, title, description) ==
    [slug |-> slug, title |-> title, description |-> description]

NoMetadata == Metadata(<<>>, <<>>, <<>>)

ServiceMetadata ==
    { Metadata(<<"h","e","l","l","o">>, <<"H","e","l","l","o">>, <<"A"," ","g","r","e","e","t","i","n","g">>),
      Metadata(<<"H","e","l","l","o"," ","W","o","r","l","d">>, <<"H","e","l","l","o"," ","W","o","r","l","d">>, <<"A"," ","g","r","e","e","t","i","n","g">>),
      Metadata(<<"a","d","m","i","n">>, <<"A","d","m","i","n">>, <<"A"," ","g","r","e","e","t","i","n","g">>) }

Response(status, body, meta) == [status |-> status, body |-> body, meta |-> meta]

NoResponse == Response(-1, None, NoMetadata)

ErrorStatuses == {429, 502, 503, 504, 401}

\* 200 bodies GrokClient.analyzeContent rejects: empty content, content
\* that is not JSON, a JSON object lacking description.
MalformedBodies == {"empty", "nonjson", "missing"}

Responses ==
    { Response(s, "error", NoMetadata) : s \in ErrorStatuses \cup {0} }
    \cup { Response(200, b, NoMetadata) : b \in MalformedBodies }
    \cup { Response(200, "ok", m) : m \in ServiceMetadata }

\* shouldRetry without the 503 line.
shouldRetryNo503(status) == status \in {429, 502, 504}

\* GrokClient.shouldRetry(error), for the GrokAPIError the response
\* interceptor builds from a response with this status.
shouldRetry(status) == status \in {429, 502, 503, 504}

\* The metadata GrokClient.analyzeContent returns for a well-formed body.
clientMetadata(meta) ==
    IF IsUrlSafe(meta.slug) THEN meta
    ELSE Metadata(generateFallbackSlug(meta.title), meta.title, meta.description)

\* An analysis result: slug, title, description and the analyzer that made it.
Analysis(slug, title, description, analyzer) ==
    [slug |-> slug, title |-> title, description |-> description, analyzer |-> analyzer]

NoAnalysis == Analysis(<<>>, <<>>, <<>>, None)

\* ContentAnalyzer.postProcessAnalysis(analysis, context)
postProcessAnalysis(meta, extractedContent, fallbackTitle) ==
    LET t0   == IF meta.title # <<>> THEN meta.title ELSE fallbackTitle
        slug == IF IsUrlSafe(meta.slug) THEN meta.slug ELSE generateSlugFromTitle(t0)
        title == IF Len(t0) > MaxTitleLength
                 THEN Substring0(t0, MaxTitleLength - 3) \o Ellipsis ELSE t0
        d0   == IF meta.description # <<>> THEN meta.description
                ELSE generateDescriptionFromContent(extractedContent)
        description == IF Len(d0) > MaxDescriptionLength
                       THEN Substring0(d0, MaxDescriptionLength - 3) \o Ellipsis ELSE d0
    IN  Analysis(slug, title, description, "grok-content-analyzer")

\* A catch block of analyzeContent that yields no metadata.
generateFallbackMetadataNone(htmlContent, fallbackTitle) == NoAnalysis

\* ContentAnalyzer.generateFallbackMetadata(htmlContent, {fallbackTitle})
generateFallbackMetadata(htmlContent, fallbackTitle) ==
    Analysis(generateSlugFromTitle(fallbackTitle), fallbackTitle,
             generateDescriptionFromContent(Trim(extractTextContent(htmlContent))),
             "fallback-analyzer")

\* ---------------------------------------------------------------- messages
Attachment(name, tooLarge) == [present |-> TRUE, name |-> name, tooLarge |-> tooLarge]

NoAttachment == [present |-> FALSE, name |-> <<>>, tooLarge |-> FALSE]

\* An inbound chat message: whether its text starts with !poop, its
\* attachment, the code spans of its text, and its author.
Message(command, attachment, blocks, author) ==
    [command |-> command, attachment |-> attachment, blocks |-> blocks, author |-> author]

NoMessage == Message(FALSE, NoAttachment, <<>>, "")

Messages ==
    { Message(TRUE, NoAttachment, <<Block("html", <<"h1", "script">>)>>, "u1"),
      Message(TRUE, NoAttachment, <<Block("fence", <<"script">>)>>, "u1"),
      Message(TRUE, NoAttachment, <<Block("inline", <<"text">>)>>, "u1"),
      Message(TRUE, NoAttachment, <<>>, "u1"),
      Message(TRUE, Attachment(PageHtml, FALSE), <<>>, "u1"),
      Message(TRUE, Attachment(NotesTxt, FALSE), <<>>, "u1"),
      Message(FALSE, NoAttachment, <<Block("html", <<"h1">>)>>, "u1") }

\* Bodies the attachment URL can serve.
DownloadBodies == { <<>>, <<"text">>, <<"h1">> }

\* filename.replace(/\\.html?$/i, ''): a backslash, any character, then
\* htm or html at the end of the name.
HtmlSuffixLength(filename) ==
    LET n == Len(filename)
        low == ToLowerCase(filename)
    IN  IF n >= 6 /\ low[n - 5] = "\\" /\ SubSeq(low, n - 3, n) = <<"h","t","m","l">> THEN 6
        ELSE IF n >= 5 /\ low[n - 4] = "\\" /\ SubSeq(low, n - 2, n) = <<"h","t","m">> THEN 5
        ELSE 0

\* The fallbackTitle option handlePoopCommand passes to the analyzer.
fallbackTitleOf(filename) ==
    IF filename # <<>>
    THEN SubSeq(filename, 1, Len(filename) - HtmlSuffixLength(filename))
    ELSE DiscordPost

\* ------------------------------------------------------------------ state
VARIABLES
    posts,        \* the rows of table posts, in insertion order
    call,         \* the Post.create call of each caller
    handled,      \* number of messages handed to handlePoopCommand so far
    pc,           \* where handlePoopCommand is suspended
    message,      \* the message it was invoked with
    htmlContent,  \* const htmlContent of handlePoopCommand
    filename,     \* const filename of handlePoopCommand
    grok,         \* the analyzer's loop variables and what it has sent
    analysis,     \* const analysis of handlePoopCommand
    caught,       \* the error bound in the catch block of handlePoopCommand
    escaped,      \* the error handlePoopCommand itself rejected with
    replies,      \* the replies sent to the user for this message, in order
    createCalls,  \* number of Post.create calls made for this message
    chatFailed,   \* whether a chat-platform call failed for this message
    serviceFailed, \* whether every response to this message's requests was a failure
    retryAttempt, \* attempt of handlePoopCommandWithRetry, NoAttempt without it
    util,         \* the call of a function of src/utils in progress, with its result
    limiter,      \* the rate limiter of createRateLimiter and the calls made of it
    db,           \* the database's CURRENT_TIMESTAMP and its sqlite_sequence for posts
    loaded        \* the Post instance a direct caller got from Post.findById

vars ==
    <<posts, call, handled, pc, message, htmlContent, filename, grok,
      analysis, caught, escaped, replies, createCalls, chatFailed,
      serviceFailed, retryAttempt, util, limiter, db, loaded>>

\* handlePoopCommand was invoked directly (web/server.js), not by
\* handlePoopCommandWithRetry.
NoAttempt == -1

\* A call of one of the exported functions of src/utils: the function, its
\* argument, where the call is ("called", "returned" or "threw") and what it
\* returned.
UtilCall(fn, input, at, output) == [fn |-> fn, input |-> input, at |-> at, output |-> output]

\* No such call is being followed.
NoUtil == UtilCall("none", <<>>, "none", <<>>)

\* ------------------------------ src/utils/security.js, createRateLimiter
\* new Map()
EmptyMap == [k \in {} |-> <<>>]

\* A lookup that ignores the key when the Map holds another one.
MapGetShared(map, key) ==
    IF DOMAIN map = {} THEN <<>> ELSE map[CHOOSE k \in DOMAIN map : TRUE]

\* requests.get(key) || []
MapGet(map, key) == IF key \in DOMAIN map THEN map[key] ELSE <<>>

\* requests.set(key, value)
MapSet(map, key, value) ==
    [k \in DOMAIN map \cup {key} |-> IF k = key THEN value ELSE map[k]]

\* The function createRateLimiter(windowMs, maxRequests) returned: its two
\* parameters, its Map requests, the last value Date.now() gave it, and the
\* calls made of it so far, each with its identifier, its time and its result.
Limiter(windowMs, maxRequests, requests, now, calls) ==
    [windowMs |-> windowMs, maxRequests |-> maxRequests, requests |-> requests,
     now |-> now, calls |-> calls]

\* createRateLimiter has not been called: there is no limiter.
NoLimiter == Limiter(0, 0, EmptyMap, 0, <<>>)

\* The filter keeping the timestamp that is exactly windowMs old as well.
RecentTimestampsClosed(timestamps, windowStart) ==
    SelectSeq(timestamps, LAMBDA time : time >= windowStart)

\* timestamps.filter(time => time > windowStart)
RecentTimestamps(timestamps, windowStart) ==
    SelectSeq(timestamps, LAMBDA time : time > windowStart)

\* The Map after the loop "Clean old entries": every list is filtered, and a
\* key whose list becomes empty is deleted.
CleanOldEntries(requests, windowStart) ==
    LET kept == { key \in DOMAIN requests :
                     RecentTimestamps(requests[key], windowStart) # <<>> }
    IN [key \in kept |-> RecentTimestamps(requests[key], windowStart)]

\* Math.min(...recentRequests); Infinity for no argument.
Infinity == "Infinity"

MathMin(xs) ==
    IF xs = <<>> THEN Infinity
    ELSE CHOOSE x \in { xs[i] : i \in 1..Len(xs) } :
            \A i \in 1..Len(xs) : x <= xs[i]

\* { allowed: false, resetTime }
DeniedResult(recentRequests, windowMs) ==
    [allowed |-> FALSE,
     resetTime |-> IF recentRequests = <<>> THEN Infinity
                   ELSE MathMin(recentRequests) + windowMs]

\* { allowed: true, remaining }
AllowedResult(remaining) == [allowed |-> TRUE, remaining |-> remaining]

\* One call lim(identifier) with Date.now() = now: the result and the Map
\* the call leaves behind.
LimiterCall(lim, identifier, now) ==
    LET windowStart == now - lim.windowMs
        cleaned == CleanOldEntries(lim.requests, windowStart)
        recentRequests == RecentTimestamps(MapGet(cleaned, identifier), windowStart)
    IN IF Len(recentRequests) >= lim.maxRequests
       THEN [result |-> DeniedResult(recentRequests, lim.windowMs),
             requests |-> cleaned]
       ELSE [result |-> AllowedResult(lim.maxRequests - (Len(recentRequests) + 1)),
             requests |-> MapSet(cleaned, identifier, Append(recentRequests, now))]

\* The fields handed to Post.create.
PostData(slug, title, description, html, userId, username) ==
    [slug |-> slug, title |-> title, description |-> description,
     html_content |-> html, discord_user_id |-> userId,
     discord_username |-> username]

NoData == PostData(<<>>, <<>>, <<>>, <<>>, "", "")

\* A row of table posts as the INSERT of Post.create makes it (001_init.sql):
\* id is the AUTOINCREMENT key, created_at and updated_at default to
\* CURRENT_TIMESTAMP.
Row(id, data, now) ==
    [id |-> id, slug |-> data.slug, title |-> data.title,
     description |-> data.description, html_content |-> data.html_content,
     discord_user_id |-> data.discord_user_id,
     discord_username |-> data.discord_username,
     created_at |-> now, updated_at |-> now]

NoRow == Row(0, NoData, 0)

\* The database: now is its CURRENT_TIMESTAMP, seq the largest id table posts
\* has ever held (sqlite_sequence).
Db(now, seq) == [now |-> now, seq |-> seq]

\* The database after the migration 001_init.sql.
NewDb == Db(0, 0)

\* A Post.create call: the statement it is suspended in ("none" before the
\* call, "check", "insert", then "returned" or "threw"), its argument, the
\* row it returned and the error it threw.
Call(at, data, row, error) == [at |-> at, data |-> data, row |-> row, error |-> error]

NoCall == Call("none", NoData, NoRow, NoError)

\* SELECT id FROM posts WHERE slug = ?
SlugExists(slug) == \E i \in 1..Len(posts) : posts[i].slug = slug

\* analyzeContent called with skipSanitization: the content is used as it is.
SanitizedContentSkipped == htmlContent

\* const sanitizedContent of ContentAnalyzer.analyzeContent; the handler
\* leaves skipSanitization at its default, false.
SanitizedContent == sanitizeHTML(htmlContent)

\* The analyzer's locals while a request is in flight: attempt of
\* ContentAnalyzer.analyzeContent, retries of GrokClient.makeRequest, the
\* number of requests sent during this analyzeContent call, the response
\* received last, and the number of 503 responses received in a row up to
\* now.  sent is the user content of the payload of the request sent last:
\* every request of the loop carries the local sanitizedContent.
GrokState(attempt, retries, requests, last, run503) ==
    [attempt |-> attempt, retries |-> retries, requests |-> requests,
     last |-> last, run503 |-> run503,
     sent |-> IF requests = 0 THEN <<>> ELSE SanitizedContent]

GrokIdle == GrokState(0, 0, 0, NoResponse, 0)

\* The length of the run of 503 responses once response r has arrived.
Run503After(r) == IF r.status = 503 THEN grok.run503 + 1 ELSE 0

Init ==
    /\ posts = <<>>
    /\ call = [c \in Callers |-> NoCall]
    /\ handled = 0
    /\ pc = "idle"
    /\ message = NoMessage
    /\ htmlContent = <<>>
    /\ filename = <<>>
    /\ grok = GrokIdle
    /\ analysis = NoAnalysis
    /\ caught = NoError
    /\ escaped = NoError
    /\ replies = <<>>
    /\ createCalls = 0
    /\ chatFailed = FALSE
    /\ serviceFailed = TRUE
    /\ retryAttempt = NoAttempt
    /\ util = NoUtil
    /\ limiter = NoLimiter
    /\ db = NewDb
    /\ loaded = NoRow

\* ------------------------------------------------------------- Post.create
\* Column slug declared TEXT NOT NULL, without UNIQUE: no insert is refused.
UniqueViolationOff(slug) == FALSE

\* UNIQUE on posts.slug: would inserting this slug violate it?
UniqueViolation(slug) == SlugExists(slug)

Undefined == "undefined"

\* What the promise of promisify(db.run.bind(db)) resolves with: sqlite3
\* calls the callback of run with the error alone and passes lastID as a
\* property of `this`, so the promise has no value.
RunResult(lastID) == Undefined

\* Post.create(data) up to its first await: new Post(data), post.validate().
StartCreate(data) ==
    IF PostValidate(data) # <<>>
    THEN Call("threw", data, NoRow, ValidationError(PostValidate(data)))
    ELSE Call("check", data, NoRow, NoError)

\* The existence check of Post.create settles.
CreateCheck(c) ==
    /\ call[c].at = "check"
    /\ call' = [call EXCEPT ![c] =
                  IF SlugExists(@.data.slug)
                  THEN Call("threw", @.data, NoRow, SlugExistsError(@.data.slug))
                  ELSE Call("insert", @.data, NoRow, NoError)]
    /\ UNCHANGED <<util, limiter, db, loaded, retryAttempt, posts, handled, pc, message, htmlContent, filename, grok,
                   analysis, caught, escaped, replies, createCalls, chatFailed,
                   serviceFailed>>

\* The INSERT of Post.create settles and Post.create runs to its end: the
\* read of result.lastID and the SELECT of the new row.
CreateInsert(c) ==
    /\ call[c].at = "insert"
    /\ LET data == call[c].data
           id   == db.seq + 1
       IN  IF UniqueViolation(data.slug)
           THEN /\ call' = [call EXCEPT ![c] = Call("threw", data, NoRow, ConstraintError)]
                /\ UNCHANGED <<posts, db>>
           ELSE /\ posts' = Append(posts, Row(id, data, db.now))
                /\ db' = Db(db.now, id)
                /\ call' = [call EXCEPT ![c] =
                              IF RunResult(id) = Undefined
                              THEN Call("threw", data, NoRow, LastIdTypeError)
                              ELSE Call("returned", data, Row(id, data, db.now), NoError)]
    /\ UNCHANGED <<util, limiter, loaded, retryAttempt, handled, pc, message, htmlContent, filename, grok,
                   analysis, caught, escaped, replies, createCalls, chatFailed,
                   serviceFailed>>

\* Arguments the direct callers pass to Post.create.
CreateInputs ==
    { PostData(<<"h","e","l","l","o">>, <<"H","e","l","l","o">>, <<"A"," ","g","r","e","e","t","i","n","g">>, <<"h1">>, "u1", "u1"),
      PostData(<<"h","e","l","l","o">>, <<"H","e","l","l","o"," ","a","g","a","i","n">>, <<"A"," ","g","r","e","e","t","i","n","g">>, <<"h1">>, "u2", "u2"),
      PostData(<<"d","i","s","c","o","r","d","-","p","o","s","t">>, DiscordPost, <<"H","e","l","l","o">>, <<"h1">>, "u1", "u1"),
      PostData(<<"H","e","l","l","o"," ","W","o","r","l","d">>, <<"H","e","l","l","o">>, <<"A"," ","g","r","e","e","t","i","n","g">>, <<"h1">>, "u1", "u1"),
      PostData(<<"n","o","-","t","i","t","l","e">>, <<>>, <<"A"," ","g","r","e","e","t","i","n","g">>, <<"h1">>, "u1", "u1"),
      PostData(<<"a","d","m","i","n">>, <<"A","d","m","i","n">>, <<"A"," ","g","r","e","e","t","i","n","g">>, <<"h1">>, "u1", "u1"),
      PostData(<<"a","-","-","b">>, <<"H","e","l","l","o">>, <<"A"," ","g","r","e","e","t","i","n","g">>, <<"h1">>, "u1", "u1") }

\* A caller other than handlePoopCommand calls Post.create(data).
CallCreate(c, data) ==
    /\ c \in DirectCallers
    /\ call[c].at = "none"
    /\ call' = [call EXCEPT ![c] = StartCreate(data)]
    /\ UNCHANGED <<util, limiter, db, loaded, retryAttempt, posts, handled, pc, message, htmlContent, filename, grok,
                   analysis, caught, escaped, replies, createCalls, chatFailed,
                   serviceFailed>>

\* A catch block that rethrows after replying, so that the error reaches
\* the caller of handlePoopCommand.
CatchBlockRethrows(error, chatOk, replyOk) ==
    /\ caught' = error
    /\ replies' = IF replyOk THEN Append(replies, errorMessage(error)) ELSE replies
    /\ chatFailed' = (chatFailed \/ ~chatOk \/ ~replyOk)
    /\ pc' = IF retryAttempt = NoAttempt THEN "idle" ELSE "retry"

\* ----------------------------------------------------------- orchestrator
\* The catch block of handlePoopCommand: one reply with the chosen message;
\* a failure of that reply is logged and swallowed.  chatOk tells whether
\* the error came from somewhere else than a chat-platform call.
CatchBlock(error, chatOk, replyOk) ==
    /\ caught' = error
    /\ replies' = IF replyOk THEN Append(replies, errorMessage(error)) ELSE replies
    /\ chatFailed' = (chatFailed \/ ~chatOk \/ ~replyOk)
    /\ pc' = "idle"

\* A new message arrives: the per-message state is reset and
\* handlePoopCommand(message) runs up to `await message.channel.sendTyping()`.
Invoke(m) ==
    /\ pc = "idle"
    /\ handled' = handled + 1
    /\ message' = m
    /\ pc' = IF m.command THEN "typing" ELSE "idle"
    /\ call' = [call EXCEPT ![HandlerCall] = NoCall]
    /\ htmlContent' = <<>>
    /\ filename' = <<>>
    /\ grok' = GrokIdle
    /\ analysis' = NoAnalysis
    /\ caught' = NoError
    /\ escaped' = NoError
    /\ replies' = <<>>
    /\ createCalls' = 0
    /\ chatFailed' = FALSE
    /\ serviceFailed' = TRUE
    /\ UNCHANGED posts

\* The message handler calls handlePoopCommand(message).
Receive(m) ==
    /\ handled < MaxSubmissions
    /\ retryAttempt' = NoAttempt
    /\ Invoke(m)
    /\ UNCHANGED <<util, limiter, db, loaded>>

\* The message handler calls handlePoopCommandWithRetry(message).
ReceiveWithRetry(m) ==
    /\ handled < MaxRetrySubmissions
    /\ retryAttempt' = 0
    /\ Invoke(m)
    /\ UNCHANGED <<util, limiter, db, loaded>>

\* sendTyping settles; it is awaited outside the try block.
SendTyping(chatOk) ==
    /\ pc = "typing"
    /\ pc' = IF chatOk THEN "extract"
             ELSE IF retryAttempt = NoAttempt THEN "idle" ELSE "retry"
    /\ escaped' = IF chatOk THEN escaped ELSE ChatError
    /\ chatFailed' = (chatFailed \/ ~chatOk)
    /\ UNCHANGED <<util, limiter, db, loaded, retryAttempt, posts, call, handled, message, htmlContent, filename, grok,
                   analysis, caught, replies, createCalls, serviceFailed>>

\* The handler from the result of extractContent to its next await.
AfterExtract(success, content, name, errorText, chatOk, replyOk) ==
    LET text == IF ~success THEN <<"X ">> \o errorText
                ELSE IF content = <<>> THEN NoHtmlText
                ELSE ProcessingText
        goOn == success /\ content # <<>>
    IN  /\ htmlContent' = IF success THEN content ELSE htmlContent
        /\ filename' = IF success THEN name ELSE filename
        /\ IF chatOk
           THEN /\ replies' = Append(replies, text)
                /\ pc' = IF goOn THEN "analyze" ELSE "idle"
                /\ UNCHANGED <<caught, chatFailed>>
           ELSE CatchBlock(ChatError, FALSE, replyOk)
        /\ UNCHANGED <<util, limiter, db, loaded, retryAttempt, posts, call, handled, message, grok, analysis, escaped,
                       createCalls, serviceFailed>>

\* The one error validateAttachment reports for this attachment.
UnsupportedTypeText(attachment) ==
    <<"File type not supported (">> \o getFileExtension(attachment.name)
        \o <<"). Allowed types: .html, .htm, .xhtml">>

\* extractContent(message) for a message without attachment, or with an
\* attachment validateAttachment rejects.
Extract(chatOk, replyOk) ==
    /\ pc = "extract"
    /\ ~(message.attachment.present /\ validateAttachment(message.attachment))
    /\ LET c == extractFromCodeBlock(message.blocks)
       IN  IF message.attachment.present
           THEN AfterExtract(FALSE, <<>>, <<>>, UnsupportedTypeText(message.attachment),
                             chatOk, replyOk)
           ELSE IF c # <<>>
           THEN AfterExtract(TRUE, c, <<>>, <<>>, chatOk, replyOk)
           ELSE AfterExtract(FALSE, <<>>, <<>>, NoContentText, chatOk, replyOk)

\* extractFromAttachment up to `await axios.get(attachment.url, ...)`.
StartDownload ==
    /\ pc = "extract"
    /\ message.attachment.present
    /\ validateAttachment(message.attachment)
    /\ pc' = "download"
    /\ UNCHANGED <<util, limiter, db, loaded, retryAttempt, posts, call, handled, message, htmlContent, filename, grok,
                   analysis, caught, escaped, replies, createCalls, chatFailed,
                   serviceFailed>>

\* axios.get rejects with error.
DownloadFails(error, chatOk, replyOk) ==
    /\ pc = "download"
    /\ AfterExtract(FALSE, <<>>, <<>>, attachmentErrorText(error), chatOk, replyOk)

\* axios.get resolves with response.data = body.
DownloadDone(body, chatOk, replyOk) ==
    /\ pc = "download"
    /\ IF body = <<>>
       THEN AfterExtract(FALSE, <<>>, <<>>, <<"Downloaded file is empty">>, chatOk, replyOk)
       ELSE IF ~isValidHtml(body)
       THEN AfterExtract(FALSE, <<>>, <<>>,
                         <<"File does not contain valid HTML content">>, chatOk, replyOk)
       ELSE AfterExtract(TRUE, body, message.attachment.name, <<>>, chatOk, replyOk)

\* ---------------------------------------------------- analyzer, stepwise
\* Strings generateRandomString(6) can return.
RandomSuffixes == { <<"a","b","c","1","2","3">>, <<"x","y","z","7","8","9">> }

\* The context analyzeContent computes before its loop.

ExtractedContent == Trim(extractTextContent(SanitizedContent))

FallbackMetadata == generateFallbackMetadata(htmlContent, fallbackTitleOf(filename))

\* contentAnalyzer.analyzeContent(htmlContent, options) up to the first
\* request.  GrokClient.analyzeContent rejects blank content without sending
\* anything, on each of the attempts, and the catch block then returns the
\* fallback metadata.
AnalyzeStart ==
    /\ pc = "analyze"
    /\ IF SanitizedContent = <<>>
       THEN /\ analysis' = FallbackMetadata
            /\ pc' = "save"
            /\ UNCHANGED grok
       ELSE /\ grok' = GrokState(0, 0, 1, NoResponse, 0)
            /\ pc' = "request"
            /\ UNCHANGED analysis
    /\ UNCHANGED <<util, limiter, db, loaded, retryAttempt, posts, call, handled, message, htmlContent, filename,
                   caught, escaped, replies, createCalls, chatFailed, serviceFailed>>

\* makeRequest's catch block chooses to retry: after the backoff sleep the
\* request is sent again with retries + 1.
ClientRetry(r) ==
    /\ pc = "request"
    /\ r.status # 200
    /\ grok.retries < ClientMaxRetries
    /\ shouldRetry(r.status)
    /\ grok' = GrokState(grok.attempt, grok.retries + 1, grok.requests + 1, r,
                         Run503After(r))
    /\ UNCHANGED serviceFailed
    /\ UNCHANGED <<util, limiter, db, loaded, retryAttempt, posts, call, handled, pc, message, htmlContent, filename,
                   analysis, caught, escaped, replies, createCalls, chatFailed>>

\* GrokClient.analyzeContent rejects: makeRequest rethrew the error, or the
\* 200 body failed a check.  The loop of ContentAnalyzer.analyzeContent
\* calls the client again unless this was attempt maxRetries, and then its
\* catch block returns the fallback metadata.
ClientFails(r) ==
    /\ pc = "request"
    /\ \/ r.status # 200 /\ ~(grok.retries < ClientMaxRetries /\ shouldRetry(r.status))
       \/ r.status = 200 /\ r.body \in MalformedBodies
    /\ IF grok.attempt = AnalyzerMaxRetries
       THEN /\ analysis' = FallbackMetadata
            /\ pc' = "save"
            /\ grok' = GrokState(grok.attempt, grok.retries, grok.requests, r,
                                 Run503After(r))
       ELSE /\ grok' = GrokState(grok.attempt + 1, 0, grok.requests + 1, r,
                                 Run503After(r))
            /\ UNCHANGED <<analysis, pc>>
    /\ serviceFailed' = (serviceFailed /\ r.status # 200)
    /\ UNCHANGED <<util, limiter, db, loaded, retryAttempt, posts, call, handled, message, htmlContent, filename,
                   caught, escaped, replies, createCalls, chatFailed>>

\* GrokClient.analyzeContent resolves; postProcessAnalysis and enhanceMetadata
\* build the result.
ClientSucceeds(r) ==
    /\ pc = "request"
    /\ r.status = 200
    /\ r.body = "ok"
    /\ analysis' = postProcessAnalysis(clientMetadata(r.meta), ExtractedContent,
                                       fallbackTitleOf(filename))
    /\ grok' = GrokState(grok.attempt, grok.retries, grok.requests, r, 0)
    /\ pc' = "save"
    /\ serviceFailed' = FALSE
    /\ UNCHANGED <<util, limiter, db, loaded, retryAttempt, posts, call, handled, message, htmlContent, filename,
                   caught, escaped, replies, createCalls, chatFailed>>

\* ------------------------------------------------- orchestrator, continued
\* handlePoopCommand from the analyzer's result to `await Post.create(...)`:
\* two edits of the processing message, sanitizeSlug, and the call.
Save(rnd, chatOk, replyOk) ==
    /\ pc = "save"
    /\ grok' = GrokIdle
    /\ IF chatOk
       THEN /\ call' = [call EXCEPT ![HandlerCall] =
                          StartCreate(PostData(cleanUserSlug(analysis.slug, rnd),
                                               analysis.title, analysis.description,
                                               htmlContent, message.author,
                                               message.author))]
            /\ createCalls' = createCalls + 1
            /\ pc' = "create"
            /\ UNCHANGED <<caught, replies, chatFailed>>
       ELSE /\ CatchBlock(ChatError, FALSE, replyOk)
            /\ UNCHANGED <<call, createCalls>>
    /\ UNCHANGED <<util, limiter, db, loaded, retryAttempt, posts, handled, message, htmlContent, filename, analysis,
                   escaped, serviceFailed>>

\* Post.create has settled: the success reply, or the catch block.
AfterCreate(chatOk, replyOk) ==
    /\ pc = "create"
    /\ call[HandlerCall].at \in {"returned", "threw"}
    /\ IF call[HandlerCall].at = "threw"
       THEN CatchBlock(call[HandlerCall].error, TRUE, replyOk)
       ELSE IF chatOk
       THEN /\ replies' = Append(replies, SuccessText)
            /\ pc' = "idle"
            /\ UNCHANGED <<caught, chatFailed>>
       ELSE CatchBlock(ChatError, FALSE, replyOk)
    /\ UNCHANGED <<util, limiter, db, loaded, retryAttempt, posts, call, handled, message, htmlContent, filename, grok,
                   analysis, escaped, createCalls, serviceFailed>>

\* ---------------------------------------------------------- specification
\* The bot handling messages one after the other.
Next ==
    \/ \E m \in Messages : Receive(m)
    \/ \E chatOk \in BOOLEAN : SendTyping(chatOk)
    \/ \E chatOk, replyOk \in BOOLEAN : Extract(chatOk, replyOk)
    \/ StartDownload
    \/ \E e \in DownloadErrors, chatOk, replyOk \in BOOLEAN : DownloadFails(e, chatOk, replyOk)
    \/ \E b \in DownloadBodies, chatOk, replyOk \in BOOLEAN : DownloadDone(b, chatOk, replyOk)
    \/ AnalyzeStart
    \/ \E r \in Responses : ClientRetry(r)
    \/ \E r \in Responses : ClientFails(r)
    \/ \E r \in Responses : ClientSucceeds(r)
    \/ \E rnd \in RandomSuffixes, chatOk, replyOk \in BOOLEAN : Save(rnd, chatOk, replyOk)
    \/ CreateCheck(HandlerCall)
    \/ CreateInsert(HandlerCall)
    \/ \E chatOk, replyOk \in BOOLEAN : AfterCreate(chatOk, replyOk)

Spec == Init /\ [][Next]_vars

\* ---------------------------------------------- handlePoopCommandWithRetry
\* maxRetries = 2 of handlePoopCommandWithRetry.
WithRetryMax == 2

RetryExhaustedText ==
    <<"Failed to process your content after multiple attempts. Please try again later or contact support.">>

\* The catch block of handlePoopCommandWithRetry: after the last attempt one
\* reply (a failure of it is swallowed), otherwise a sleep and the next
\* iteration, which invokes handlePoopCommand(message) again.
Retry(replyOk) ==
    /\ pc = "retry"
    /\ IF retryAttempt = WithRetryMax
       THEN /\ replies' = IF replyOk THEN Append(replies, RetryExhaustedText) ELSE replies
            /\ pc' = "idle"
            /\ UNCHANGED <<retryAttempt, call, htmlContent, filename, grok, analysis,
                           caught, escaped>>
       ELSE /\ retryAttempt' = retryAttempt + 1
            /\ pc' = "typing"
            /\ call' = [call EXCEPT ![HandlerCall] = NoCall]
            /\ htmlContent' = <<>>
            /\ filename' = <<>>
            /\ grok' = GrokIdle
            /\ analysis' = NoAnalysis
            /\ caught' = NoError
            /\ escaped' = NoError
            /\ UNCHANGED replies
    /\ chatFailed' = (chatFailed \/ (retryAttempt = WithRetryMax /\ ~replyOk))
    /\ UNCHANGED <<util, limiter, db, loaded, posts, handled, message, createCalls, serviceFailed>>

\* The bot handling messages through handlePoopCommandWithRetry.
NextRetry ==
    \/ \E m \in Messages : ReceiveWithRetry(m)
    \/ \E replyOk \in BOOLEAN : Retry(replyOk)
    \/ \E chatOk \in BOOLEAN : SendTyping(chatOk)
    \/ \E chatOk, replyOk \in BOOLEAN : Extract(chatOk, replyOk)
    \/ StartDownload
    \/ \E e \in DownloadErrors, chatOk, replyOk \in BOOLEAN : DownloadFails(e, chatOk, replyOk)
    \/ \E b \in DownloadBodies, chatOk, replyOk \in BOOLEAN : DownloadDone(b, chatOk, replyOk)
    \/ AnalyzeStart
    \/ \E r \in Responses : ClientRetry(r)
    \/ \E r \in Responses : ClientFails(r)
    \/ \E r \in Responses : ClientSucceeds(r)
    \/ \E rnd \in RandomSuffixes, chatOk, replyOk \in BOOLEAN : Save(rnd, chatOk, replyOk)
    \/ CreateCheck(HandlerCall)
    \/ CreateInsert(HandlerCall)
    \/ \E chatOk, replyOk \in BOOLEAN : AfterCreate(chatOk, replyOk)

SpecRetry == Init /\ [][NextRetry]_vars

\* Concurrent calls of Post.create on one database.
NextStore ==
    \E c \in DirectCallers :
        \/ \E data \in CreateInputs : CallCreate(c, data)
        \/ CreateCheck(c)
        \/ CreateInsert(c)

SpecStore == Init /\ [][NextStore]_vars

\* A file name of 67 characters, "aaa...a.html".
LongNameHtml == [i \in 1..62 |-> "a"] \o <<".","h","t","m","l">>

\* The messages the analyzer is run for on its own: those of the handler
\* and one with a long attachment name.
AnalyzerMessages ==
    Messages \cup { Message(TRUE, Attachment(LongNameHtml, FALSE), <<>>, "u1") }

\* ContentAnalyzer.analyzeContent on its own: the states in which
\* handlePoopCommand calls it for the first message, and its steps.
AnalyzerCalls ==
    { <<m, extractFromCodeBlock(m.blocks), <<>> >> :
        m \in {x \in AnalyzerMessages : /\ x.command
                                         /\ ~x.attachment.present
                                         /\ extractFromCodeBlock(x.blocks) # <<>>} }
    \cup
    { <<m, b, m.attachment.name>> :
        m \in {x \in AnalyzerMessages : /\ x.command
                                         /\ x.attachment.present
                                         /\ validateAttachment(x.attachment)},
        b \in {x \in DownloadBodies : isValidHtml(x)} }

InitAnalyzer ==
    /\ \E c \in AnalyzerCalls :
          /\ message = c[1]
          /\ htmlContent = c[2]
          /\ filename = c[3]
    /\ posts = <<>>
    /\ call = [c \in Callers |-> NoCall]
    /\ handled = 1
    /\ pc = "analyze"
    /\ grok = GrokIdle
    /\ analysis = NoAnalysis
    /\ caught = NoError
    /\ escaped = NoError
    /\ replies = <<ProcessingText>>
    /\ createCalls = 0
    /\ chatFailed = FALSE
    /\ serviceFailed = TRUE
    /\ retryAttempt = NoAttempt
    /\ util = NoUtil
    /\ limiter = NoLimiter
    /\ db = NewDb
    /\ loaded = NoRow

NextAnalyzer ==
    \/ AnalyzeStart
    \/ \E r \in Responses : ClientRetry(r)
    \/ \E r \in Responses : ClientFails(r)
    \/ \E r \in Responses : ClientSucceeds(r)

\* Every request is sent with a 30 s timeout and every backoff sleep is
\* finite, so a pending step of the analyzer is eventually taken.
FairAnalyzer == InitAnalyzer /\ [][NextAnalyzer]_vars /\ WF_vars(NextAnalyzer)

\* ================================================================ claims
\* Is needle a contiguous part of hay?
IsInfix(needle, hay) ==
    \E i \in 0..(Len(hay) - Len(needle)) :
        SubSeq(hay, i + 1, i + Len(needle)) = needle

Settled(c) == call[c].at \in {"returned", "threw"}

SlugCount(slug) == Cardinality({i \in 1..Len(posts) : posts[i].slug = slug})

\* ------------------------------------------------------------------- C1
\* C1: whatever the interleaving of concurrent Post.create calls, no two
\* rows of table posts have the same slug.
C1_UniqueSlugs ==
    \A i, j \in 1..Len(posts) : posts[i].slug = posts[j].slug => i = j

\* Two callers passed the existence check with the same slug, one inserted
\* and the INSERT of the other was refused.
C1_Witness ==
    \E c, d \in DirectCallers :
        /\ c # d
        /\ call[c].data.slug = call[d].data.slug
        /\ call[c].error = ConstraintError
        /\ call[d].error = LastIdTypeError
        /\ SlugCount(call[c].data.slug) = 1

\* ------------------------------------------------------------------- C2
\* C2: the html_content handlePoopCommand passes to Post.create is the
\* output of the sanitizer applied to the extracted content.
C2_StoresSanitized ==
    call[HandlerCall].at # "none" =>
        call[HandlerCall].data.html_content = sanitizeHTML(htmlContent)

\* ------------------------------------------------------------------- C3
\* C3: when two concurrent Post.create calls with the same valid slug have
\* both settled, exactly one row has that slug and one of the two callers
\* got the duplicate-slug error naming that slug.
C3_LoserSeesDuplicate ==
    \A c, d \in DirectCallers :
        (/\ c # d
         /\ Settled(c) /\ Settled(d)
         /\ call[c].data.slug = call[d].data.slug
         /\ PostValidate(call[c].data) = <<>>
         /\ PostValidate(call[d].data) = <<>>
         /\ \A e \in DirectCallers \ {c, d} : call[e].data.slug # call[c].data.slug)
        => /\ SlugCount(call[c].data.slug) = 1
           /\ \E l \in {c, d} : call[l].error = SlugExistsError(call[l].data.slug)

\* ------------------------------------------------------------------- C4
\* A run of handlePoopCommand on a command with content that is still
\* non-blank after sanitizing has ended, every chat call having succeeded.
RunEnded ==
    /\ pc = "idle"
    /\ message.command
    /\ SanitizedContent # <<>>
    /\ ~chatFailed
    /\ escaped = NoError

\* C4: when every analysis request of a submission fails, the submission
\* ends with the success reply and a stored post carrying the fallback
\* slug, title and description; this holds for each submission of a
\* sequence.
C4_FallbackSucceeds ==
    (RunEnded /\ serviceFailed) =>
        /\ replies # <<>>
        /\ replies[Len(replies)] = SuccessText
        /\ \E i \in 1..Len(posts) :
              /\ posts[i].slug = FallbackMetadata.slug
              /\ posts[i].title = FallbackMetadata.title
              /\ posts[i].description = FallbackMetadata.description
              /\ call[HandlerCall].row = posts[i]

\* ------------------------------------------------------------------- C5
\* The step handles a 503 response of a makeRequest call all of whose
\* responses were 503.
Handles503 ==
    /\ pc = "request"
    /\ grok.run503 >= grok.retries
    /\ grok' # grok
    /\ grok'.last.status = 503

\* makeRequest sends the request once more.
Resent ==
    /\ pc' = "request"
    /\ grok'.attempt = grok.attempt
    /\ grok'.retries = grok.retries + 1
    /\ grok'.requests = grok.requests + 1

\* makeRequest rethrows and GrokClient.analyzeContent rejects: the caller's
\* loop starts its next attempt or, after its last attempt, falls back.
Raised ==
    \/ pc' = "request" /\ grok'.attempt = grok.attempt + 1 /\ grok'.retries = 0
    \/ pc' = "save" /\ analysis'.analyzer = "fallback-analyzer"

C6_RepeatOnlyTransient ==
    [][(pc = "request" /\ grok'.requests > grok.requests)
          => grok'.last.status \in {429, 502, 503, 504}]_vars

\* ------------------------------------------------------------------- C7
\* C7: during one ContentAnalyzer.analyzeContent call at most 3 requests
\* are sent.
C7_AtMostThreeRequests == grok.requests <= 3

\* ------------------------------------------------------------------- C8
AnalyzerRunning == pc \in {"analyze", "request"}

IsMetadataResult(a) ==
    /\ a.analyzer \in {"grok-content-analyzer", "fallback-analyzer"}
    /\ a.slug # <<>>
    /\ a.title # <<>>
    /\ a.description # <<>>

\* C8: whatever the service answers, ContentAnalyzer.analyzeContent called
\* on non-blank content eventually returns a metadata result, and while it
\* runs no error reaches handlePoopCommand.
C8_AnalyzerAlwaysReturns ==
    /\ [](pc = "save" => IsMetadataResult(analysis))
    /\ [][AnalyzerRunning =>
            /\ pc' \in {"analyze", "request", "save"}
            /\ caught' = NoError
            /\ escaped' = NoError]_vars
    /\ (AnalyzerRunning ~> pc = "save")

\* The analyzer returned the fallback metadata after its last attempt
\* failed.
C8_Witness ==
    /\ pc = "save"
    /\ grok.attempt = AnalyzerMaxRetries
    /\ grok.last.status # 200
    /\ analysis = FallbackMetadata
    /\ IsMetadataResult(analysis)

\* ------------------------------------------------------------------- C9
IsDuplicateError(error) ==
    \/ Includes(error.message, "slug") /\ Includes(error.message, "exists")
    \/ error.code = "SQLITE_CONSTRAINT"

\* C9: a submission has ended with a duplicate-slug error only after the
\* handler called Post.create a second time.
C9_RetriesOnDuplicate ==
    (pc = "idle" /\ IsDuplicateError(caught)) => createCalls = 2

\* ------------------------------------------------------------------ C10
\* Texts of the exceptions thrown below handlePoopCommand.
DownstreamMessages ==
    { e.message : e \in DownloadErrors \cup
                        {ChatError, ConstraintError, LastIdTypeError,
                         SlugExistsError(<<>>)} }

Leaks(reply) == \E m \in DownstreamMessages : IsInfix(m, reply)

\* C10: no exception leaves handlePoopCommand, and no reply contains the
\* text of a downstream exception.
C10_NothingEscapes ==
    /\ escaped = NoError
    /\ \A i \in 1..Len(replies) : ~Leaks(replies[i])

\* ------------------------------------------------------------------ C11
\* C11: for one submitted command, also when handlePoopCommandWithRetry
\* invokes the handler again, Post.create is called at most once, and only
\* when extraction has succeeded and the analyzer has returned its result;
\* a row is written only by that call, at most one per command.
C11_CreateAtMostOnce ==
    /\ [](/\ createCalls <= 1
          /\ Len(posts) <= handled
          /\ (call[HandlerCall].at # "none" =>
                /\ createCalls = 1
                /\ htmlContent # <<>>
                /\ IsMetadataResult(analysis)))
    /\ [][posts' # posts =>
            /\ pc = "create"
            /\ createCalls = 1
            /\ Len(posts') = Len(posts) + 1
            /\ posts'[Len(posts')].html_content = htmlContent
            /\ posts'[Len(posts')].title = analysis.title]_vars

\* The handler was invoked again after a failed attempt, and this time
\* created the post.
C11_Witness ==
    /\ retryAttempt >= 1
    /\ createCalls = 1
    /\ Len(posts) = 1
    /\ pc = "idle"

\* ------------------------------------------------------------------ C12
\* The message is a command without attachment and without a code span
\* holding an HTML tag.
NoContent(m) ==
    /\ m.command
    /\ ~m.attachment.present
    /\ \A i \in 1..Len(m.blocks) :
          \A j \in 1..Len(m.blocks[i].content) : m.blocks[i].content[j] \notin TagNodes

HelpReply == <<"X ">> \o NoContentText

\* C12: for a message without attachment and without a code span holding
\* an HTML tag, the analyzer and Post.create are never invoked, the store
\* is left unchanged, and the run ends with the one usage-help reply (when
\* the chat platform accepts it).
C12_NoContentGivesHelp ==
    /\ [](NoContent(message) =>
            /\ pc \in {"idle", "typing", "extract"}
            /\ grok = GrokIdle
            /\ analysis = NoAnalysis
            /\ call[HandlerCall] = NoCall
            /\ createCalls = 0
            /\ (pc = "idle" /\ ~chatFailed => replies = <<HelpReply>>))
    /\ [][NoContent(message) => posts' = posts]_vars

\* A message with nothing but a tagless inline span got the help reply
\* while the store held a post from the message before.
C12_Witness ==
    /\ NoContent(message)
    /\ message.blocks # <<>>
    /\ pc = "idle"
    /\ replies = <<HelpReply>>
    /\ Len(posts) = 1

\* ------------------------------------------------------------------ C13
MinContentLength == 10

MaxContentLength == 1000000

\* The nodes matched by dangerousPatterns of validateHtmlContent.
DangerousNodes == {"script"}

\* validateHtmlContent(htmlContent).errors of bot/commands/poop.js.
validateHtmlContent(html) ==
    (IF ContentLength(html) < MinContentLength
     THEN <<"Content is too short (minimum 10 characters)">> ELSE <<>>)
    \o (IF ContentLength(html) > MaxContentLength
        THEN <<"Content is too long (maximum 1000000 characters)">> ELSE <<>>)
    \o (IF \A i \in 1..Len(html) : html[i] \notin TagNodes
        THEN <<"Content does not appear to be HTML">> ELSE <<>>)
    \o (IF \E i \in 1..Len(html) : html[i] \in DangerousNodes
        THEN <<"Content contains potentially dangerous HTML elements">> ELSE <<>>)

\* C13: when the extracted content fails validateHtmlContent, the handler
\* invokes neither the analyzer nor Post.create.
C13_InvalidContentRejected ==
    (htmlContent # <<>> /\ validateHtmlContent(htmlContent) # <<>>) =>
        /\ pc \notin {"analyze", "request", "save", "create"}
        /\ grok = GrokIdle
        /\ analysis = NoAnalysis
        /\ call[HandlerCall] = NoCall

\* ---------------------------------------------------------- validateSlug
\* reservedWords of isReservedSlug.
ReservedWords ==
    { <<"a","p","i">>,
      <<"a","d","m","i","n">>,
      <<"a","u","t","h">>,
      <<"l","o","g","i","n">>,
      <<"l","o","g","o","u","t">>,
      <<"r","e","g","i","s","t","e","r">>,
      <<"d","a","s","h","b","o","a","r","d">>,
      <<"s","t","a","t","i","c">>,
      <<"a","s","s","e","t","s">>,
      <<"p","u","b","l","i","c">>,
      <<"i","m","a","g","e","s">>,
      <<"c","s","s">>,
      <<"j","s">>,
      <<"r","o","b","o","t","s",".","t","x","t">>,
      <<"s","i","t","e","m","a","p",".","x","m","l">>,
      <<"f","a","v","i","c","o","n",".","i","c","o">>,
      <<"m","a","n","i","f","e","s","t",".","j","s","o","n">>,
      <<"s","e","a","r","c","h">>,
      <<"a","b","o","u","t">>,
      <<"c","o","n","t","a","c","t">>,
      <<"h","e","l","p">>,
      <<"p","r","i","v","a","c","y">>,
      <<"t","e","r","m","s">>,
      <<"s","t","a","t","s">>,
      <<"h","e","a","l","t","h">>,
      <<"s","t","a","t","u","s">>,
      <<"p","i","n","g">>,
      <<"m","e","t","r","i","c","s">>,
      <<"s","i","t","e","m","a","p">>,
      <<"f","e","e","d">>,
      <<"r","s","s">>,
      <<"w","w","w">>,
      <<"m","a","i","l">>,
      <<"f","t","p">>,
      <<"l","o","c","a","l","h","o","s","t">>,
      <<"t","e","s","t">>,
      <<"s","t","a","g","i","n","g">>,
      <<"d","e","v">>,
      <<"d","e","m","o">>,
      <<"b","l","o","g">>,
      <<"n","e","w","s">>,
      <<"p","o","s","t","s">>,
      <<"p","o","s","t">>,
      <<"p","a","g","e">>,
      <<"p","a","g","e","s">>,
      <<"u","s","e","r">>,
      <<"u","s","e","r","s">>,
      <<"p","r","o","f","i","l","e">>,
      <<"s","e","t","t","i","n","g","s">>,
      <<"c","o","n","f","i","g">>,
      <<"s","y","s","t","e","m">>,
      <<"i","n","t","e","r","n","a","l">>,
      <<"e","x","t","e","r","n","a","l">>,
      <<"g","e","t">>,
      <<"p","u","t">>,
      <<"p","a","t","c","h">>,
      <<"d","e","l","e","t","e">>,
      <<"h","e","a","d">>,
      <<"o","p","t","i","o","n","s">>,
      <<"t","r","a","c","e">>,
      <<"c","o","n","n","e","c","t">>,
      <<"w","e","b","h","o","o","k">>,
      <<"c","a","l","l","b","a","c","k">>,
      <<"o","a","u","t","h">>,
      <<"t","o","k","e","n">>,
      <<"r","e","f","r","e","s","h">>,
      <<"d","b">>,
      <<"d","a","t","a","b","a","s","e">>,
      <<"s","q","l">>,
      <<"q","u","e","r","y">>,
      <<"i","n","d","e","x">>,
      <<"c","a","c","h","e">>,
      <<"s","e","s","s","i","o","n">>,
      <<"c","o","o","k","i","e">>,
      <<"c","o","r","s">>,
      <<"c","s","r","f">>,
      <<"x","s","s">>,
      <<"i","n","j","e","c","t","i","o","n">>,
      <<"e","x","p","l","o","i","t">>,
      <<"h","t","m","l">>,
      <<"h","t","m">>,
      <<"x","m","l">>,
      <<"j","s","o","n">>,
      <<"t","x","t">>,
      <<"p","d","f">>,
      <<"j","p","g">>,
      <<"j","p","e","g">>,
      <<"p","n","g">>,
      <<"g","i","f">>,
      <<"s","v","g">>,
      <<"i","c","o">>,
      <<"p","h","p">>,
      <<"a","s","p">>,
      <<"j","s","p">> }

\* isReservedSlug(slug)
isReservedSlug(slug) == ToLowerCase(slug) \in ReservedWords

MinSlugLength == 3

MaxSlugLength == 80

\* validateSlug(slug).errors; validateSlug(slug).isValid is errors = <<>>.
validateSlug(slug) ==
    IF slug = <<>> THEN <<"Slug must be a non-empty string">>
    ELSE
    (IF Len(slug) < MinSlugLength
     THEN <<"Slug must be at least 3 characters long">> ELSE <<>>)
    \o (IF Len(slug) > MaxSlugLength
        THEN <<"Slug must be no more than 80 characters long">> ELSE <<>>)
    \o (IF \E i \in 1..Len(slug) :
              slug[i] \notin (AlnumChars \cup {"-", ".", "~"})
        THEN <<"Slug contains invalid characters">> ELSE <<>>)
    \o (IF slug[1] \notin AlnumChars
        THEN <<"Slug must start with a letter or number">> ELSE <<>>)
    \o (IF slug[Len(slug)] \notin AlnumChars
        THEN <<"Slug must end with a letter or number">> ELSE <<>>)
    \o (IF \E i \in 1..(Len(slug) - 1) : slug[i] = "-" /\ slug[i + 1] = "-"
        THEN <<"Slug cannot contain consecutive hyphens">> ELSE <<>>)
    \o (IF isReservedSlug(slug)
        THEN <<"Slug cannot be a reserved word">> ELSE <<>>)

\* ------------------------------------------------------------------ C14
\* The slug rule of a stored post: characters [a-z0-9-] and everything
\* validateSlug asks for.
FullyValidSlug(slug) == IsUrlSafe(slug) /\ validateSlug(slug) = <<>>

\* C14: every row of posts has a slug that is fully valid, and a
\* Post.create call whose slug is not leaves the store as it is.
C14_StoredSlugsValid ==
    /\ \A i \in 1..Len(posts) : FullyValidSlug(posts[i].slug)
    /\ \A c \in Callers :
          (Settled(c) /\ ~FullyValidSlug(call[c].data.slug)) =>
              /\ call[c].at = "threw"
              /\ ~SlugExists(call[c].data.slug)

\* ------------------------------------------------------------------ C15
\* C15: every result ContentAnalyzer.analyzeContent returns has a
\* non-empty title of at most 60 characters and a non-empty description of
\* at most 160 characters.
C15_TitleAndDescriptionCaps ==
    pc = "save" =>
        /\ analysis.title # <<>>
        /\ Len(analysis.title) <= 60
        /\ analysis.description # <<>>
        /\ Len(analysis.description) <= 160


\* ------------------------------------------------------------------- C16
\* A request of the analyzer is in flight for the current message.
RequestInFlight == pc = "request" /\ grok.requests >= 1

QuoteChars == {"\"", "'"}

\* /<name\b[^<]*(?:(?!<\/name>)<[^<]*)*<\/name>/gi : an opening <name at a
\* word boundary up to the first </name> after it.
BlockMatchEnd(s, i, name) ==
    LET open  == <<"<">> \o name
        close == <<"<", "/">> \o name \o <<">">>
        after == i + Len(open)
    IN  IF /\ MatchesAt(s, i, open)
           /\ after <= Len(s)
           /\ s[after] \notin WordChars
           /\ IndexOfFrom(s, after, close) # 0
        THEN IndexOfFrom(s, after, close) + Len(close) - 1
        ELSE 0

\* \s*name\s*=\s*["'][^"']*["'] where the attribute name (after the
\* leading white space) ends before position nameEnd.
QuotedValueEnd(s, nameEnd) ==
    LET eq  == RunEnd(s, nameEnd, SpaceChars)
        qt  == RunEnd(s, eq + 1, SpaceChars)
        end == FindFirst(s, qt + 1, QuoteChars)
    IN  IF /\ eq <= Len(s) /\ s[eq] = "="
           /\ qt <= Len(s) /\ s[qt] \in QuoteChars
           /\ end <= Len(s)
        THEN end ELSE 0

\* /\s*on\w+\s*=\s*["'][^"']*["']/gi
HandlerMatchEnd(s, i) ==
    LET on      == RunEnd(s, i, SpaceChars)
        nameEnd == RunEnd(s, on + 2, WordChars)
    IN  IF MatchesAt(s, on, <<"o", "n">>) /\ nameEnd > on + 2
        THEN QuotedValueEnd(s, nameEnd) ELSE 0

\* /\s*on\w+\s*=\s*[^"'\s>]+/gi
BareHandlerMatchEnd(s, i) ==
    LET on      == RunEnd(s, i, SpaceChars)
        nameEnd == RunEnd(s, on + 2, WordChars)
        eq      == RunEnd(s, nameEnd, SpaceChars)
        val     == RunEnd(s, eq + 1, SpaceChars)
        end     == FindFirst(s, val, QuoteChars \cup SpaceChars \cup {">"})
    IN  IF /\ MatchesAt(s, on, <<"o", "n">>) /\ nameEnd > on + 2
           /\ eq <= Len(s) /\ s[eq] = "="
           /\ end > val
        THEN end - 1 ELSE 0

\* new RegExp(`\\s*${attr}\\s*=\\s*["'][^"']*["']`, 'gi')
AttrMatchEnd(s, i, attr) ==
    LET at == RunEnd(s, i, SpaceChars)
    IN  IF MatchesAt(s, at, attr) THEN QuotedValueEnd(s, at + Len(attr)) ELSE 0

\* /literal/gi
LiteralMatchEnd(s, i, pat) == IF MatchesAt(s, i, pat) THEN i + Len(pat) - 1 ELSE 0

\* /<(\w+)(?:\s+[^>]*)?>[\s]*<\/\1>/gi : an element with nothing but white
\* space between its tags.
EmptyElementMatchEnd(s, i) ==
    LET nameEnd == RunEnd(s, i + 1, WordChars)
        name    == ToLowerCase(SubSeq(s, i + 1, nameEnd - 1))
        gt      == IF nameEnd <= Len(s) /\ s[nameEnd] \in SpaceChars
                   THEN FindFirst(s, nameEnd, {">"}) ELSE nameEnd
        close   == RunEnd(s, gt + 1, SpaceChars)
        pat     == <<"<", "/">> \o name \o <<">">>
    IN  IF /\ i <= Len(s) /\ s[i] = "<"
           /\ nameEnd > i + 1
           /\ gt <= Len(s) /\ s[gt] = ">"
           /\ MatchesAt(s, close, pat)
        THEN close + Len(pat) - 1 ELSE 0

\* /<\/?([a-zA-Z][a-zA-Z0-9]*)[^>]*>/g of sanitizeElements: the position
\* where the tag name starts.
TagNameStart(s, i) == IF i + 1 <= Len(s) /\ s[i + 1] = "/" THEN i + 2 ELSE i + 1

TagMatchEnd(s, i) ==
    LET name0 == TagNameStart(s, i)
        gt    == FindFirst(s, name0, {">"})
    IN  IF /\ s[i] = "<" /\ name0 <= Len(s)
           /\ s[name0] \in LowerChars \cup UpperChars
           /\ gt <= Len(s)
        THEN gt ELSE 0

\* /<([a-zA-Z][a-zA-Z0-9]*)((?:\s+[^>]*)?)>/g of sanitizeAttributes
ElementMatchEnd(s, i) ==
    LET nameEnd == RunEnd(s, i + 1, AlnumChars)
        gt      == FindFirst(s, nameEnd, {">"})
    IN  IF /\ s[i] = "<" /\ i + 1 <= Len(s)
           /\ s[i + 1] \in LowerChars \cup UpperChars
           /\ nameEnd <= Len(s)
        THEN IF s[nameEnd] = ">" THEN nameEnd
             ELSE IF s[nameEnd] \in SpaceChars /\ gt <= Len(s) THEN gt
             ELSE 0
        ELSE 0

\* /\s+([a-zA-Z][a-zA-Z0-9-]*)\s*=\s*["']([^"']*)["']/g of sanitizeAttributes
AttributeMatchEnd(s, i) ==
    LET name0   == RunEnd(s, i, SpaceChars)
        nameEnd == RunEnd(s, name0, AlnumChars \cup {"-"})
    IN  IF /\ name0 > i /\ name0 <= Len(s)
           /\ s[name0] \in LowerChars \cup UpperChars
        THEN QuotedValueEnd(s, nameEnd) ELSE 0

\* A regular expression of security.js: its kind and the name or literal
\* it is built from.
Regex(kind, arg) == [kind |-> kind, arg |-> arg]

MatchEnd(re, s, i) ==
    CASE re.kind = "block"       -> BlockMatchEnd(s, i, re.arg)
      [] re.kind = "handler"     -> HandlerMatchEnd(s, i)
      [] re.kind = "bareHandler" -> BareHandlerMatchEnd(s, i)
      [] re.kind = "attr"        -> AttrMatchEnd(s, i, re.arg)
      [] re.kind = "literal"     -> LiteralMatchEnd(s, i, re.arg)
      [] re.kind = "tag"         -> TagMatchEnd(s, i)
      [] re.kind = "element"     -> ElementMatchEnd(s, i)
      [] re.kind = "attribute"   -> AttributeMatchEnd(s, i)
      [] OTHER                   -> EmptyElementMatchEnd(s, i)

\* The position where the leftmost match at or after i starts, 0 if none.
NextMatch(re, s, i) ==
    IF \A j \in i..Len(s) : MatchEnd(re, s, j) = 0 THEN 0
    ELSE CHOOSE j \in i..Len(s) :
             /\ MatchEnd(re, s, j) # 0
             /\ \A k \in i..(j - 1) : MatchEnd(re, s, k) = 0

\* s.replace(re, '') with flag g: the matches are found from left to right,
\* each search starting after the previous match.
RECURSIVE RemoveFrom(_, _, _)
RemoveFrom(s, i, re) ==
    CHOOSE r \in
      { IF at = 0 THEN SubSeq(s, i, Len(s))
        ELSE (CHOOSE t \in { SubSeq(s, i, at - 1) \o RemoveFrom(s, end + 1, re) :
                             end \in { MatchEnd(re, s, at) } } : TRUE) :
        at \in { NextMatch(re, s, i) } } : TRUE

RemoveAll(s, re) == CHOOSE r \in { RemoveFrom(x, 1, y) : x \in {s}, y \in {re} } : TRUE

\* ------------------------------------- src/utils/security.js, sanitizeHTML
\* SAFE_HTML_CONFIG.allowedTags
AllowedTags ==
    { <<"p">>, <<"b","r">>, <<"s","t","r","o","n","g">>, <<"b">>, <<"e","m">>, <<"i">>, <<"u">>, <<"s","p","a","n">>, <<"d","i","v">>,
      <<"h","1">>, <<"h","2">>, <<"h","3">>, <<"h","4">>, <<"h","5">>, <<"h","6">>,
      <<"u","l">>, <<"o","l">>, <<"l","i">>,
      <<"a">>, <<"i","m","g">>,
      <<"t","a","b","l","e">>, <<"t","h","e","a","d">>, <<"t","b","o","d","y">>, <<"t","r">>, <<"t","d">>, <<"t","h">>,
      <<"c","o","d","e">>, <<"p","r","e">>, <<"b","l","o","c","k","q","u","o","t","e">>,
      <<"a","r","t","i","c","l","e">>, <<"s","e","c","t","i","o","n">>, <<"a","s","i","d","e">>, <<"h","e","a","d","e","r">>, <<"f","o","o","t","e","r">>, <<"m","a","i","n">>, <<"n","a","v">>,
      <<"h","r">>, <<"s","m","a","l","l">>, <<"s","u","b">>, <<"s","u","p">>, <<"m","a","r","k">>, <<"d","e","l">>, <<"i","n","s">>, <<"a","b","b","r">>, <<"c","i","t","e">>,
      <<"q">>, <<"d","f","n">>, <<"t","i","m","e">>, <<"k","b","d">>, <<"s","a","m","p">>, <<"v","a","r">>, <<"d","e","t","a","i","l","s">>, <<"s","u","m","m","a","r","y">> }

\* SAFE_HTML_CONFIG.allowedAttributes[tag] || []
AllowedAttributesFor(tag) ==
    CASE tag = <<"a">>          -> { <<"h","r","e","f">>, <<"t","i","t","l","e">>, <<"t","a","r","g","e","t">>, <<"r","e","l">> }
      [] tag = <<"i","m","g">>        -> { <<"s","r","c">>, <<"a","l","t">>, <<"t","i","t","l","e">>, <<"w","i","d","t","h">>, <<"h","e","i","g","h","t">> }
      [] tag = <<"b","l","o","c","k","q","u","o","t","e">> -> { <<"c","i","t","e">> }
      [] tag = <<"q">>          -> { <<"c","i","t","e">> }
      [] tag = <<"t","i","m","e">>       -> { <<"d","a","t","e","t","i","m","e">> }
      [] tag = <<"a","b","b","r">>       -> { <<"t","i","t","l","e">> }
      [] tag = <<"d","f","n">>        -> { <<"t","i","t","l","e">> }
      [] tag = <<"t","h">>         -> { <<"s","c","o","p","e">>, <<"c","o","l","s","p","a","n">>, <<"r","o","w","s","p","a","n">> }
      [] tag = <<"t","d">>         -> { <<"c","o","l","s","p","a","n">>, <<"r","o","w","s","p","a","n">> }
      [] tag = <<"d","e","t","a","i","l","s">>    -> { <<"o","p","e","n">> }
      [] OTHER                 -> {}

\* SAFE_HTML_CONFIG.allowedAttributes['*']
GlobalAttributes == { <<"c","l","a","s","s">>, <<"i","d">>, <<"s","t","y","l","e">> }

\* SAFE_HTML_CONFIG.allowedProtocols
AllowedProtocols == { <<"h","t","t","p">>, <<"h","t","t","p","s">>, <<"m","a","i","l","t","o">>, <<"t","e","l">> }

\* SAFE_HTML_CONFIG.allowedStyles
AllowedStyles ==
    { <<"c","o","l","o","r">>, <<"b","a","c","k","g","r","o","u","n","d","-","c","o","l","o","r">>, <<"f","o","n","t","-","s","i","z","e">>, <<"f","o","n","t","-","f","a","m","i","l","y">>, <<"f","o","n","t","-","w","e","i","g","h","t">>,
      <<"t","e","x","t","-","a","l","i","g","n">>, <<"t","e","x","t","-","d","e","c","o","r","a","t","i","o","n">>, <<"m","a","r","g","i","n">>, <<"p","a","d","d","i","n","g">>, <<"b","o","r","d","e","r">>,
      <<"w","i","d","t","h">>, <<"h","e","i","g","h","t">>, <<"d","i","s","p","l","a","y">>, <<"f","l","o","a","t">>, <<"c","l","e","a","r">> }

\* const dangerousAttrs of sanitizeHTML, in the order of the array.
DangerousAttrs ==
    << <<"o","n","l","o","a","d">>, <<"o","n","e","r","r","o","r">>, <<"o","n","c","l","i","c","k">>, <<"o","n","m","o","u","s","e","o","v","e","r">>, <<"o","n","m","o","u","s","e","o","u","t">>,
       <<"o","n","k","e","y","d","o","w","n">>, <<"o","n","k","e","y","u","p">>, <<"o","n","s","u","b","m","i","t">>, <<"o","n","c","h","a","n","g","e">>, <<"o","n","f","o","c","u","s">>,
       <<"o","n","b","l","u","r">>, <<"o","n","s","c","r","o","l","l">>, <<"o","n","r","e","s","i","z","e">>, <<"o","n","u","n","l","o","a","d">>, <<"o","n","b","e","f","o","r","e","u","n","l","o","a","d">> >>

\* The options of sanitizeHTML that SAFE_HTML_CONFIG leaves undefined.
Config(allowStyleTags, allowDataUrls) ==
    [allowStyleTags |-> allowStyleTags, allowDataUrls |-> allowDataUrls]

DefaultConfig == Config(FALSE, FALSE)

\* The value null of JavaScript, which is no string.
Null == <<"null">>

\* s contains pat, the case of letters ignored.
ContainsCI(s, pat) == IndexOfFrom(s, 1, pat) # 0

\* s.split(sep) for a separator of one character: the parts of s from
\* position i on.
RECURSIVE SplitFrom(_, _, _)
SplitFrom(s, i, sep) ==
    CHOOSE r \in
      { IF k > Len(s) THEN <<SubSeq(s, i, Len(s))>>
        ELSE <<SubSeq(s, i, k - 1)>> \o SplitFrom(s, k + 1, sep) :
        k \in { FindFirst(s, i, {sep}) } } : TRUE

Split(s, sep) == CHOOSE r \in { SplitFrom(x, 1, sep) : x \in {s} } : TRUE

\* parts.join(sep): the parts from the k-th on.
RECURSIVE JoinFrom(_, _, _)
JoinFrom(parts, k, sep) ==
    IF k > Len(parts) THEN <<>>
    ELSE IF k = Len(parts) THEN parts[k]
    ELSE parts[k] \o sep \o JoinFrom(parts, k + 1, sep)

Join(parts, sep) == CHOOSE r \in { JoinFrom(x, 1, sep) : x \in {parts} } : TRUE

\* The characters escapeHTML replaces (htmlEscapes).
HtmlEscapes ==
    [c \in {"&", "<", ">", "\"", "'", "/"} |->
        CASE c = "&"  -> <<"&","a","m","p",";">>
          [] c = "<"  -> <<"&","l","t",";">>
          [] c = ">"  -> <<"&","g","t",";">>
          [] c = "\"" -> <<"&","q","u","o","t",";">>
          [] c = "'"  -> <<"&","#","3","9",";">>
          [] OTHER    -> <<"&","#","x","2","F",";">>]

\* escapeHTML(text): text.replace(/[&<>"'\/]/g, char => htmlEscapes[char])
RECURSIVE escapeFrom(_, _)
escapeFrom(text, i) ==
    CHOOSE r \in
      { IF k > Len(text) THEN SubSeq(text, i, Len(text))
        ELSE SubSeq(text, i, k - 1) \o HtmlEscapes[text[k]] \o escapeFrom(text, k + 1) :
        k \in { FindFirst(text, i, DOMAIN HtmlEscapes) } } : TRUE

escapeHTML(text) == CHOOSE r \in { escapeFrom(x, 1) : x \in {text} } : TRUE

\* new URL(url) parses: url begins with a scheme, and a scheme that needs a
\* host is followed by one.
UrlScheme(url) ==
    LET colon == FindFirst(url, 1, {":"})
    IN  IF /\ colon <= Len(url) /\ colon > 1
           /\ url[1] \in LowerChars \cup UpperChars
           /\ \A k \in 2..(colon - 1) : url[k] \in AlnumChars \cup {"+", "-", "."}
        THEN ToLowerCase(SubSeq(url, 1, colon - 1)) ELSE <<>>

SchemesWithHost == { <<"h","t","t","p">>, <<"h","t","t","p","s">>, <<"f","t","p">>, <<"w","s">>, <<"w","s","s">> }

UrlParses(url) ==
    /\ UrlScheme(url) # <<>>
    /\ UrlScheme(url) \in SchemesWithHost
          => RunEnd(url, Len(UrlScheme(url)) + 2, {"/", "\\"}) <= Len(url)

\* sanitizeURL(url, allowedProtocols)
sanitizeURL(url, allowedProtocols) ==
    IF url = <<>> THEN Null
    ELSE CHOOSE r \in
           { IF \E p \in { <<"j","a","v","a","s","c","r","i","p","t",":">>, <<"v","b","s","c","r","i","p","t",":">>, <<"d","a","t","a",":">> } : MatchesAt(u, 1, p)
             THEN Null
             ELSE IF \E p \in { <<"/">>, <<".","/">>, <<".",".","/">> } :
                        Len(u) >= Len(p) /\ SubSeq(u, 1, Len(p)) = p
             THEN u
             ELSE IF UrlParses(u) /\ UrlScheme(u) \notin allowedProtocols
             THEN Null
             ELSE u :
             u \in { Trim(url) } } : TRUE

\* /(expression|javascript|vbscript|behavior|binding|@import|url\()/i
DangerousCssWords ==
    { <<"e","x","p","r","e","s","s","i","o","n">>, <<"j","a","v","a","s","c","r","i","p","t">>, <<"v","b","s","c","r","i","p","t">>, <<"b","e","h","a","v","i","o","r">>, <<"b","i","n","d","i","n","g">>,
      <<"@","i","m","p","o","r","t">>, <<"u","r","l","(">> }

\* style.split(';').map(decl => decl.trim()).filter(decl => decl)
Declarations(style) ==
    CHOOSE r \in
      { SelectSeq([i \in 1..Len(all) |-> Trim(all[i])], LAMBDA d : d # <<>>) :
        all \in { Split(style, ";") } } : TRUE

\* The body of declarations.forEach: the declaration as it is pushed, the
\* empty string when it is not.
KeptDeclaration(declaration, allowedStyles) ==
    CHOOSE r \in
      { IF /\ Len(raw) >= 2
           /\ Trim(raw[1]) # <<>> /\ Trim(raw[2]) # <<>>
           /\ ToLowerCase(Trim(raw[1])) \in allowedStyles
           /\ \A w \in DangerousCssWords : ~ContainsCI(Trim(raw[2]), w)
        THEN Trim(raw[1]) \o <<":", " ">> \o Trim(raw[2])
        ELSE <<>> :
        raw \in { Split(declaration, ":") } } : TRUE

\* sanitizeStyleAttribute(style, allowedStyles)
sanitizeStyleAttribute(style, allowedStyles) ==
    CHOOSE r \in
      { Join(SelectSeq([i \in 1..Len(decls) |-> KeptDeclaration(decls[i], allowedStyles)],
                       LAMBDA d : d # <<>>),
             <<";", " ">>) :
        decls \in { Declarations(style) } } : TRUE

\* sanitizeClassOrId(value)
sanitizeClassOrId(value) ==
    Trim(FilterChars(value, AlnumChars \cup {"_", "-"} \cup SpaceChars))

\* sanitizeAttributeValue(attrName, attrValue, config)
sanitizeAttributeValue(attrName, attrValue) ==
    IF attrValue = <<>> THEN <<>>
    ELSE IF attrName = <<"h","r","e","f">> THEN sanitizeURL(attrValue, AllowedProtocols)
    ELSE IF attrName = <<"s","r","c">> THEN sanitizeURL(attrValue, AllowedProtocols \cup { <<"d","a","t","a">> })
    ELSE IF attrName = <<"s","t","y","l","e">> THEN sanitizeStyleAttribute(attrValue, AllowedStyles)
    ELSE IF attrName \in { <<"c","l","a","s","s">>, <<"i","d">> } THEN sanitizeClassOrId(attrValue)
    ELSE IF attrName = <<"t","a","r","g","e","t">>
         THEN IF attrValue \in { <<"_","b","l","a","n","k">>, <<"_","s","e","l","f">>, <<"_","p","a","r","e","n","t">>, <<"_","t","o","p">> }
              THEN attrValue ELSE Null
    ELSE IF attrName = <<"r","e","l">>
         THEN LET rels == SelectSeq(Split(attrValue, " "),
                                    LAMBDA r : r \in { <<"n","o","f","o","l","l","o","w">>, <<"n","o","o","p","e","n","e","r">>,
                                                       <<"n","o","r","e","f","e","r","r","e","r">>, <<"a","l","t","e","r","n","a","t","e">>,
                                                       <<"c","a","n","o","n","i","c","a","l">> })
              IN  IF rels # <<>> THEN Join(rels, <<" ">>) ELSE Null
    ELSE escapeHTML(attrValue)

\* One match of the attribute expression of sanitizeAttributes, starting at
\* position at: where the name starts and ends, where the value's opening
\* quote is, and where the match ends.
AttributeParts(attributes, at) ==
    LET name0   == RunEnd(attributes, at, SpaceChars)
        nameEnd == RunEnd(attributes, name0, AlnumChars \cup {"-"})
    IN  [name0   |-> name0,
         nameEnd |-> nameEnd,
         quote   |-> RunEnd(attributes, RunEnd(attributes, nameEnd, SpaceChars) + 1,
                            SpaceChars),
         end     |-> QuotedValueEnd(attributes, nameEnd)]

\* The body of the loop of sanitizeAttributes: what is pushed to
\* sanitizedAttrs for one attribute, as a list of zero or one strings.
KeptAttribute(attrName, attrValue, tag) ==
    CHOOSE r \in
      { IF /\ ToLowerCase(attrName) \in AllowedAttributesFor(tag) \cup GlobalAttributes
           /\ value # Null
        THEN << attrName \o <<"=", "\"">> \o value \o <<"\"">> >>
        ELSE <<>> :
        value \in { IF ToLowerCase(attrName) \in AllowedAttributesFor(tag) \cup GlobalAttributes
                    THEN sanitizeAttributeValue(ToLowerCase(attrName), attrValue)
                    ELSE Null } } : TRUE

\* The loop of sanitizeAttributes over the matches of its attribute
\* expression: the attributes that are kept, each as name="value".
RECURSIVE SanitizedAttrs(_, _, _)
SanitizedAttrs(attributes, j, tag) ==
    CHOOSE r \in
      { IF at = 0 THEN <<>>
        ELSE (CHOOSE t \in
                { KeptAttribute(SubSeq(attributes, m.name0, m.nameEnd - 1),
                                SubSeq(attributes, m.quote + 1, m.end - 1), tag)
                      \o SanitizedAttrs(attributes, m.end + 1, tag) :
                  m \in { AttributeParts(attributes, at) } } : TRUE) :
        at \in { NextMatch(Regex("attribute", <<>>), attributes, j) } } : TRUE

\* What sanitizeAttributes puts in the place of the element tag from position
\* at to position end, whose name ends before nameEnd.
RebuiltTag(html, at, nameEnd, end) ==
    IF nameEnd = end THEN SubSeq(html, at, end)
    ELSE CHOOSE t \in
           { <<"<">> \o SubSeq(html, at + 1, nameEnd - 1)
                 \o (IF kept # <<>> THEN <<" ">> \o Join(kept, <<" ">>) ELSE <<>>)
                 \o <<">">> :
             kept \in { SanitizedAttrs(SubSeq(html, nameEnd, end - 1), 1,
                                       ToLowerCase(SubSeq(html, at + 1, nameEnd - 1))) } } : TRUE

\* sanitizeAttributes(html, config): every element tag is rebuilt from the
\* attributes that are kept; a tag without attributes is left as it is.
RECURSIVE sanitizeAttributesFrom(_, _)
sanitizeAttributesFrom(html, i) ==
    CHOOSE r \in
      { IF at = 0 THEN SubSeq(html, i, Len(html))
        ELSE (CHOOSE t \in
                { SubSeq(html, i, at - 1) \o RebuiltTag(html, at, nameEnd, end)
                      \o sanitizeAttributesFrom(html, end + 1) :
                  nameEnd \in { RunEnd(html, at + 1, AlnumChars) },
                  end \in { ElementMatchEnd(html, at) } } : TRUE) :
        at \in { NextMatch(Regex("element", <<>>), html, i) } } : TRUE

sanitizeAttributes(html) ==
    CHOOSE r \in { sanitizeAttributesFrom(x, 1) : x \in {html} } : TRUE

\* The tag from position at to position end is kept when its name is one of
\* allowedTags.
KeptTag(html, at, end) ==
    IF ToLowerCase(SubSeq(html, TagNameStart(html, at),
                          RunEnd(html, TagNameStart(html, at), AlnumChars) - 1))
           \in AllowedTags
    THEN SubSeq(html, at, end) ELSE <<>>

\* sanitizeElements(html, config): every tag whose name is not allowed is
\* removed.
RECURSIVE sanitizeElementsFrom(_, _)
sanitizeElementsFrom(html, i) ==
    CHOOSE r \in
      { IF at = 0 THEN SubSeq(html, i, Len(html))
        ELSE (CHOOSE t \in
                { SubSeq(html, i, at - 1) \o KeptTag(html, at, end)
                      \o sanitizeElementsFrom(html, end + 1) :
                  end \in { TagMatchEnd(html, at) } } : TRUE) :
        at \in { NextMatch(Regex("tag", <<>>), html, i) } } : TRUE

sanitizeElements(html) ==
    CHOOSE r \in { sanitizeElementsFrom(x, 1) : x \in {html} } : TRUE

\* dangerousAttrs.forEach(attr => html = html.replace(regex, ''))
RECURSIVE RemoveDangerousAttrs(_, _)
RemoveDangerousAttrs(html, k) ==
    IF k > Len(DangerousAttrs) THEN html
    ELSE CHOOSE r \in { RemoveDangerousAttrs(h, k + 1) :
                          h \in { RemoveAll(html, Regex("attr", DangerousAttrs[k])) } } : TRUE

\* The statements of sanitizeHTML up to the call of sanitizeElements.
RemoveDangerousText(html, config) ==
    CHOOSE r \in
      { RemoveDangerousAttrs(h7, 1) :
        h7 \in { RemoveAll(h6, Regex("literal", <<"v","b","s","c","r","i","p","t",":">>)) :
        h6 \in { IF config.allowDataUrls THEN h5
                 ELSE RemoveAll(h5, Regex("literal", <<"d","a","t","a",":">>)) :
        h5 \in { RemoveAll(h4, Regex("literal", <<"j","a","v","a","s","c","r","i","p","t",":">>)) :
        h4 \in { RemoveAll(h3, Regex("bareHandler", <<>>)) :
        h3 \in { RemoveAll(h2, Regex("handler", <<>>)) :
        h2 \in { IF config.allowStyleTags THEN h1
                 ELSE RemoveAll(h1, Regex("block", <<"s","t","y","l","e">>)) :
        h1 \in { RemoveAll(html, Regex("block", <<"s","c","r","i","p","t">>)) } } } } } } } } : TRUE

\* sanitizeHTML(html, options) of security.js; each statement is applied to
\* the value the statement before it has assigned.
Security_sanitizeHTML(html, config) ==
    IF html = <<>> THEN <<>>
    ELSE CHOOSE r \in
           { Trim(hB) :
             hB \in { RemoveAll(hA, Regex("empty", <<>>)) :
             hA \in { sanitizeAttributes(h9) :
             h9 \in { sanitizeElements(h8) :
             h8 \in { RemoveDangerousText(html, config) } } } } } : TRUE

\* ------------------------------------------------ sanitizeHTML, as a call
\* Pieces of markup the arguments of sanitizeHTML are put together from.
ScriptElement == <<"<","s","c","r","i","p","t",">","1","<","/","s","c","r","i","p","t",">">>

HtmlFragments ==
    { <<>>,
      <<"<">>,
      <<"<","x",">">>,
      <<"s","c","r","i","p","t",">">>,
      <<"<","b",">">>,
      <<"<","/","b",">">>,
      <<"<","a"," ","h","r","e","f","=","\"","j","a","v","a","s","c","r","i","p","t",":","x","\"",">">> }

\* The html arguments: three pieces, after a script element or not.
HtmlInputs ==
    { a \o b \o c \o d : a \in {<<>>, ScriptElement}, b \in HtmlFragments,
                         c \in HtmlFragments, d \in HtmlFragments }

\* The options arguments: none, and both switches set.
ConfigInputs == { DefaultConfig, Config(TRUE, TRUE) }

\* The state in which no message is being handled.
HandlerIdle ==
    /\ posts = <<>>
    /\ call = [c \in Callers |-> NoCall]
    /\ handled = 0
    /\ pc = "idle"
    /\ message = NoMessage
    /\ htmlContent = <<>>
    /\ filename = <<>>
    /\ grok = GrokIdle
    /\ analysis = NoAnalysis
    /\ caught = NoError
    /\ escaped = NoError
    /\ replies = <<>>
    /\ createCalls = 0
    /\ chatFailed = FALSE
    /\ serviceFailed = TRUE
    /\ retryAttempt = NoAttempt
    /\ db = NewDb
    /\ loaded = NoRow

handlerVars ==
    <<posts, call, handled, pc, message, htmlContent, filename, grok, analysis,
      caught, escaped, replies, createCalls, chatFailed, serviceFailed, retryAttempt,
      db, loaded>>

\* sanitizeHTML(html, options) has been called.
InitSanitize ==
    /\ HandlerIdle
    /\ limiter = NoLimiter
    /\ \E html \in HtmlInputs, config \in ConfigInputs :
          util = UtilCall("sanitizeHTML", [html |-> html, config |-> config], "called", <<>>)

\* sanitizeHTML returns.
SanitizeReturns ==
    /\ util.fn = "sanitizeHTML"
    /\ util.at = "called"
    /\ util' = [util EXCEPT !.at = "returned",
                            !.output = Security_sanitizeHTML(util.input.html,
                                                             util.input.config)]
    /\ UNCHANGED <<handlerVars, limiter>>

NextSanitize == SanitizeReturns

SpecSanitize == InitSanitize /\ [][NextSanitize]_vars

\* ------------------------------------------------------------------- C17
\* html contains a script element: an opening <script tag and a closing
\* </script> tag after it.
HasScriptElement(html) == \E i \in 1..Len(html) : BlockMatchEnd(html, i, <<"s","c","r","i","p","t">>) # 0

Sanitized == util.fn = "sanitizeHTML" /\ util.at = "returned"

\* C17: whenever sanitizeHTML returns for an input that contains a script
\* element, what it returns does not contain "<script" in any letter case.
C17_NoScriptInOutput ==
    Sanitized /\ HasScriptElement(util.input.html)
        => ~ContainsCI(util.output, <<"<","s","c","r","i","p","t">>)


\* ------------------------------------------------------------------- C18
\* An href attribute whose value begins with javascript:
JavascriptHref == <<"h","r","e","f","=","\"","j","a","v","a","s","c","r","i","p","t",":">>

\* C18: whenever sanitizeHTML returns for an input with an href attribute
\* whose value begins with javascript: (and no other href attribute), what
\* it returns has no href attribute at all.
C18_JavascriptAttributeDropped ==
    Sanitized /\ ContainsCI(util.input.html, JavascriptHref)
        => ~ContainsCI(util.output, <<"h","r","e","f","=">>)


\* ------------------------------------------------ generateSlug, as a call
\* Longest text made of the characters of SlugAlphabet.
MaxTextLength == 3

\* Characters of every class generateSlug tells apart: letters of both
\* cases, white space or underscore, the hyphen, the dot, and a character
\* that is replaced.
SlugAlphabet == {"a", "B", " ", "-", ".", "!"}

\* A text longer than maxLength whose 80th character is a dot.
LongDottedText == [i \in 1..79 |-> "a"] \o <<".", "b">>

\* The text arguments: all short texts, a reserved word, a letter with a
\* diacritic, a tag, and the long text.
SlugTexts ==
    UNION { [1..n -> SlugAlphabet] : n \in 1..MaxTextLength }
    \cup { <<"a","d","m","i","n">>, <<"A","d","m","i","n"," ","P","a","n","e","l">>, <<"U+00E9", "t", "e">>, <<"<","b",">","a","b","c","<","/","b",">">>,
           LongDottedText }

\* generateSlug(text) has been called.
InitSlug ==
    /\ HandlerIdle
    /\ limiter = NoLimiter
    /\ \E text \in SlugTexts, rnd \in RandomSuffixes :
          util = UtilCall("generateSlug", [text |-> text, rnd |-> rnd], "called", <<>>)

\* generateSlug returns; the options are the defaults.
GenerateSlugReturns ==
    /\ util.fn = "generateSlug"
    /\ util.at = "called"
    /\ util' = [util EXCEPT !.at = "returned",
                            !.output = generateSlug(util.input.text, MaxSlugLength,
                                                    NoReplacements, util.input.rnd)]
    /\ UNCHANGED <<handlerVars, limiter>>

NextSlug == GenerateSlugReturns

SpecSlug == InitSlug /\ [][NextSlug]_vars

\* ------------------------------------------------------------------- C19
SlugGenerated == util.fn = "generateSlug" /\ util.at = "returned"

\* C19: whatever non-empty text generateSlug was called with, validateSlug
\* reports no error for the slug it returned, the post-<random> slug
\* included.
C19_GeneratedSlugValidates ==
    SlugGenerated => validateSlug(util.output) = <<>>


\* ------------------------------------------ generateUniqueSlug, as a call
\* const maxAttempts of generateUniqueSlug.
MaxAttempts == 100

\* Largest suffix number of the slugs that the small stores hold.
MaxSuffix == 3

DigitSeq == <<"0", "1", "2", "3", "4", "5", "6", "7", "8", "9">>

\* String(n) for a number that is not negative.
RECURSIVE Decimal(_)
Decimal(n) ==
    IF n < 10 THEN <<DigitSeq[n + 1]>>
    ELSE Decimal(n \div 10) \o <<DigitSeq[(n % 10) + 1]>>

\* `${baseSlug}-${counter}` with the counter one too large.
NumberedSlugSkips(baseSlug, counter) == baseSlug \o <<"-">> \o Decimal(counter + 1)

\* `${baseSlug}-${counter}`
NumberedSlug(baseSlug, counter) == baseSlug \o <<"-">> \o Decimal(counter)

\* Strings generateRandomString(8) can return.
RandomSuffixes8 == { <<"a","b","c","d","1","2","3","4">> }

BaseSlugs == { <<"x">>, <<"t","e","s","t","-","s","l","u","g">> }

\* The slugs of a store, given as suffix numbers: 0 stands for the base slug
\* itself, k for base-k.
Taken(baseSlug, ks) ==
    { IF k = 0 THEN baseSlug ELSE NumberedSlug(baseSlug, k) : k \in ks }

\* The stores existsCallback is backed by: every set of slugs up to
\* base-MaxSuffix, the store that holds base and base-1 .. base-100, and
\* the store that holds base-101 as well.
TakenSuffixes ==
    SUBSET (0..MaxSuffix) \cup { 0..MaxAttempts, 0..(MaxAttempts + 1) }

\* A call of generateUniqueSlug: its arguments (the callback as the set of
\* slugs it answers true for), its locals slug and counter, and the slugs the
\* callback has been called with, in order.
UniqueCall(baseSlug, exists, rnd, at, slug, counter, probed, output) ==
    [fn |-> "generateUniqueSlug",
     input |-> [baseSlug |-> baseSlug, exists |-> exists, rnd |-> rnd],
     at |-> at, slug |-> slug, counter |-> counter, probed |-> probed,
     output |-> output]

\* generateUniqueSlug(baseSlug, existsCallback) has been called and is about
\* to evaluate the condition of its loop for the first time.
InitUnique ==
    /\ HandlerIdle
    /\ limiter = NoLimiter
    /\ \E baseSlug \in BaseSlugs, ks \in TakenSuffixes, rnd \in RandomSuffixes8 :
          util = UniqueCall(baseSlug, Taken(baseSlug, ks), rnd, "called",
                            baseSlug, 1, <<>>, <<>>)

\* await existsCallback(slug) is true and counter <= maxAttempts: the next
\* numbered slug is tried.
UniqueNext ==
    /\ util.fn = "generateUniqueSlug"
    /\ util.at = "called"
    /\ util.slug \in util.input.exists
    /\ util.counter <= MaxAttempts
    /\ util' = [util EXCEPT !.slug = NumberedSlug(util.input.baseSlug, util.counter),
                            !.counter = util.counter + 1,
                            !.probed = Append(util.probed, util.slug)]
    /\ UNCHANGED <<handlerVars, limiter>>

\* The fallback without its break: the random slug becomes the next slug the
\* loop looks up.
UniqueGivesUpNoBreak ==
    /\ util.fn = "generateUniqueSlug"
    /\ util.at = "called"
    /\ util.slug \in util.input.exists
    /\ util.counter > MaxAttempts
    /\ util' = [util EXCEPT !.slug = util.input.baseSlug \o <<"-">> \o util.input.rnd,
                            !.probed = Append(util.probed, util.slug)]
    /\ UNCHANGED <<handlerVars, limiter>>

\* await existsCallback(slug) is true and counter > maxAttempts: the random
\* slug is returned without being looked up.
UniqueGivesUp ==
    /\ util.fn = "generateUniqueSlug"
    /\ util.at = "called"
    /\ util.slug \in util.input.exists
    /\ util.counter > MaxAttempts
    /\ util' = [util EXCEPT !.at = "returned",
                            !.slug = util.input.baseSlug \o <<"-">> \o util.input.rnd,
                            !.probed = Append(util.probed, util.slug),
                            !.output = util.input.baseSlug \o <<"-">> \o util.input.rnd]
    /\ UNCHANGED <<handlerVars, limiter>>

\* await existsCallback(slug) is false: slug is returned.
UniqueReturns ==
    /\ util.fn = "generateUniqueSlug"
    /\ util.at = "called"
    /\ util.slug \notin util.input.exists
    /\ util' = [util EXCEPT !.at = "returned",
                            !.probed = Append(util.probed, util.slug),
                            !.output = util.slug]
    /\ UNCHANGED <<handlerVars, limiter>>

NextUnique ==
    \/ UniqueNext
    \/ UniqueGivesUp
    \/ UniqueReturns

SpecUnique == InitUnique /\ [][NextUnique]_vars

\* ------------------------------------------------------------------- C20
UniqueReturned == util.fn = "generateUniqueSlug" /\ util.at = "returned"

\* The k-th slug of the probing order: base, base-1, base-2, ...
Candidate(k) ==
    IF k = 0 THEN util.input.baseSlug
    ELSE util.input.baseSlug \o <<"-">> \o Decimal(k)

\* The numbers k of 0..n whose candidate the callback answers false for.
FreeUpTo(n) == { k \in 0..n : Candidate(k) \notin util.input.exists }

\* The call returned the first free candidate of 0..n after looking up the
\* candidates before it, and it, in increasing order.
ReturnedFirstFree(n) ==
    \E k \in FreeUpTo(n) :
        /\ \A j \in FreeUpTo(n) : k <= j
        /\ util.output = Candidate(k)
        /\ util.probed = [i \in 1..(k + 1) |-> Candidate(i - 1)]

\* C20 as stated: the call returns base when the callback answers false for
\* it, and otherwise base-k for the smallest k >= 1 the callback answers
\* false for, however large k is.
C20_FirstFreeSuffix ==
    UniqueReturned /\ FreeUpTo(MaxAttempts + 1) # {}
        => ReturnedFirstFree(MaxAttempts + 1)

\* C20: the call returns base when the callback answers false for it,
\* otherwise base-k for the smallest k of 1..100 the callback answers false
\* for, having looked up base, base-1, .., base-k in this order; when base
\* and base-1 .. base-100 all exist it returns base-<random8>.
C20_FirstFreeSuffixUpToCap ==
    UniqueReturned =>
        IF FreeUpTo(MaxAttempts) # {}
        THEN ReturnedFirstFree(MaxAttempts)
        ELSE util.output = util.input.baseSlug \o <<"-">> \o util.input.rnd

C20_Witness ==
    /\ UniqueReturned
    /\ util.input.baseSlug = <<"x">>
    /\ util.input.exists = { <<"x">>, <<"x","-","1">>, <<"x","-","2">> }
    /\ util.output = <<"x","-","3">>

\* ------------------------------------------------------------------- C21
\* The continuation of an awaited existsCallback is run once the promise
\* settles, so a call whose callback answers does not stay in its loop
\* without taking the next step.
FairUnique == SpecUnique /\ WF_vars(NextUnique)

\* The callback answers true for every slug the call looks up: base and
\* base-1 .. base-100.  A callback that always answers true is one of these.
AlwaysExists == FreeUpTo(MaxAttempts) = {}

FallbackSlug == util.input.baseSlug \o <<"-">> \o util.input.rnd

\* The call has returned after at most maxAttempts + 1 lookups, and when
\* every lookup was answered true its result is base-<random8>, which was
\* not looked up.
ReturnedAfterBoundedProbes ==
    /\ UniqueReturned
    /\ Len(util.probed) <= MaxAttempts + 1
    /\ AlwaysExists =>
          /\ util.output = FallbackSlug
          /\ \A i \in 1..Len(util.probed) : util.probed[i] # FallbackSlug

\* C21: generateUniqueSlug terminates for every existence predicate, one
\* that always answers true included: after at most maxAttempts + 1 lookups
\* it stops looking up and returns, and when all of them were answered true
\* it returns base-<random8>.
C21_Terminates == <>ReturnedAfterBoundedProbes

C21_Witness ==
    /\ UniqueReturned
    /\ AlwaysExists
    /\ Len(util.probed) = MaxAttempts + 1
    /\ util.output = FallbackSlug

\* ------------------------------------------------------------------- C22
\* handlePoopCommand is extracting, analysing or storing for its message.
WorkStarted == pc \in {"download", "analyze", "request", "save", "create"}

\* The calls of the limiter made with the id of the message's author.
CallsForAuthor ==
    { i \in 1..Len(limiter.calls) : limiter.calls[i].identifier = message.author }

\* C22: the orchestrator does work for a submission (extraction, analysis,
\* store write) only after it has called the rate limiter with the id of the
\* submitting user, and only when that call answered allowed.
C22_ConsultsLimiterFirst ==
    WorkStarted =>
        /\ CallsForAuthor # {}
        /\ \A i \in CallsForAuthor :
              (\A j \in CallsForAuthor : j <= i) => limiter.calls[i].result.allowed

\* ------------------------------------------------ the rate limiter, called
\* Latest value of Date.now() of the calls followed.
MaxTime == 5

\* Number of calls of the limiter followed.
MaxCalls == 4

Identifiers == {"u1", "u2"}

\* The (windowMs, maxRequests) pairs the limiter is created with.
LimiterParams == { <<2, 0>>, <<2, 1>>, <<2, 2>>, <<3, 2>> }

\* limiter = createRateLimiter(windowMs, maxRequests) has been executed.
InitLimiter ==
    /\ HandlerIdle
    /\ util = NoUtil
    /\ \E p \in LimiterParams : limiter = Limiter(p[1], p[2], EmptyMap, 0, <<>>)

\* One call limiter(identifier) while Date.now() is now; the clock does not
\* run backwards.
CallLimiter(identifier, now) ==
    /\ Len(limiter.calls) < MaxCalls
    /\ now >= limiter.now
    /\ \E r \in { LimiterCall(limiter, identifier, now) } :
          limiter' = Limiter(limiter.windowMs, limiter.maxRequests, r.requests, now,
                             Append(limiter.calls,
                                    [identifier |-> identifier, time |-> now,
                                     result |-> r.result]))
    /\ UNCHANGED <<handlerVars, util>>

NextLimiter == \E identifier \in Identifiers, now \in 0..MaxTime : CallLimiter(identifier, now)

SpecLimiter == InitLimiter /\ [][NextLimiter]_vars

\* ------------------------------------------------------------------- C23
\* The calls of one identifier that were answered allowed: true.
AllowedCalls(identifier) ==
    { i \in 1..Len(limiter.calls) :
         /\ limiter.calls[i].identifier = identifier
         /\ limiter.calls[i].result.allowed }

\* The allowed calls of the identifier of call i that were made before it and
\* less than windowMs before it.
AllowedInLastWindow(i) ==
    { j \in AllowedCalls(limiter.calls[i].identifier) :
         /\ j < i
         /\ limiter.calls[j].time > limiter.calls[i].time - limiter.windowMs }

\* C23: with calls at non-decreasing times, no identifier has more than
\* maxRequests allowed calls in any span of windowMs milliseconds
\* t .. t + windowMs - 1, and a call is denied exactly when maxRequests
\* allowed calls of its identifier lie within the last windowMs before it; it
\* is allowed again once they are windowMs old.
C23_WindowLimit ==
    /\ \A identifier \in Identifiers, t \in 0..MaxTime :
          Cardinality({ i \in AllowedCalls(identifier) :
                           /\ limiter.calls[i].time >= t
                           /\ limiter.calls[i].time < t + limiter.windowMs })
              <= limiter.maxRequests
    /\ \A i \in 1..Len(limiter.calls) :
          (~limiter.calls[i].result.allowed)
              <=> Cardinality(AllowedInLastWindow(i)) >= limiter.maxRequests

\* A call is allowed, the next is denied, and one made windowMs after the
\* allowed one is allowed again.
C23_Witness ==
    /\ limiter.windowMs = 2
    /\ limiter.maxRequests = 1
    /\ Len(limiter.calls) = 3
    /\ \A i \in 1..3 : limiter.calls[i].identifier = "u1"
    /\ limiter.calls[1].time = 0 /\ limiter.calls[1].result.allowed
    /\ limiter.calls[2].time = 1 /\ ~limiter.calls[2].result.allowed
    /\ limiter.calls[3].time = 2 /\ limiter.calls[3].result.allowed

\* ------------------------------------------------------------------- C24
\* The calls made with one identifier, in order.
CallsOf(identifier) ==
    SelectSeq(limiter.calls, LAMBDA c : c.identifier = identifier)

\* The results a new limiter with the same parameters gives when only the
\* calls from the i-th on of the sequence are made of it, starting with the
\* Map requests.
RECURSIVE ResultsAlone(_, _, _)
ResultsAlone(requests, calls, i) ==
    IF i > Len(calls) THEN <<>>
    ELSE CHOOSE rs \in
           { <<r.result>> \o ResultsAlone(r.requests, calls, i + 1) :
               r \in { LimiterCall(Limiter(limiter.windowMs, limiter.maxRequests,
                                           requests, 0, <<>>),
                                   calls[i].identifier, calls[i].time) } } : TRUE

\* C24: the results of the calls made with one identifier (allowed or denied,
\* remaining, resetTime) are those the limiter gives when the calls with
\* every other identifier are left out.
C24_IdentifiersIndependent ==
    \A identifier \in Identifiers :
        [i \in 1..Len(CallsOf(identifier)) |-> CallsOf(identifier)[i].result]
            = ResultsAlone(EmptyMap, CallsOf(identifier), 1)

\* u2 is denied while u1, called before and after it, is still allowed.
C24_Witness ==
    /\ limiter.windowMs = 3
    /\ limiter.maxRequests = 2
    /\ Len(limiter.calls) = 4
    /\ limiter.calls[1].identifier = "u2" /\ limiter.calls[1].result.allowed
    /\ limiter.calls[2].identifier = "u2" /\ limiter.calls[2].result.allowed
    /\ limiter.calls[3].identifier = "u2" /\ ~limiter.calls[3].result.allowed
    /\ limiter.calls[4].identifier = "u1"
    /\ limiter.calls[4].result = AllowedResult(1)

\* ------------------------------- Post.findById, Post.update, Post.delete
\* Largest CURRENT_TIMESTAMP of the database.
MaxClock == 1

\* The fields Post.update writes, with slug among them.
AllowedFieldsWithSlug == {"title", "description", "html_content", "slug"}

\* const allowedFields of Post.update.
AllowedFields == {"title", "description", "html_content"}

\* const updates of Post.update: the allowed fields of updateData that are
\* not undefined.
Updates(updateData) ==
    [field \in DOMAIN updateData \cap AllowedFields |-> updateData[field]]

\* { ...this, ...updates }
Merged(this, updates) ==
    [field \in DOMAIN this |->
        IF field \in DOMAIN updates THEN updates[field] ELSE this[field]]

\* Whether this.update(updateData) throws before it reaches the database.
UpdateThrows(this, updateData) ==
    \/ this.id = 0
    \/ DOMAIN Updates(updateData) = {}
    \/ PostValidate(Merged(this, Updates(updateData))) # <<>>

\* UPDATE posts SET <updates>, updated_at = CURRENT_TIMESTAMP on one row, and
\* the trigger update_posts_updated_at after it.
UpdatedRow(row, updates) ==
    [field \in DOMAIN row |->
        IF field \in DOMAIN updates THEN updates[field]
        ELSE IF field = "updated_at" THEN db.now
        ELSE row[field]]

\* SELECT * FROM posts WHERE id = ?, NoRow when there is no such row.
RowById(rows, id) ==
    IF \E i \in 1..Len(rows) : rows[i].id = id
    THEN rows[CHOOSE i \in 1..Len(rows) : rows[i].id = id]
    ELSE NoRow

NewTitle == <<"N","e","w">>

\* The arguments given to Post.update: allowed fields, fields that are not
\* allowed, a title that does not validate, and no allowed field at all.
UpdateInputs ==
    { [title |-> NewTitle],
      [description |-> <<"N","e","w","e","r">>, slug |-> <<"e","v","i","l">>],
      [html_content |-> <<"h1", "text">>, id |-> 9, discord_user_id |-> "u9",
       discord_username |-> "u9", created_at |-> MaxClock + 1],
      [title |-> <<>>],
      [slug |-> <<"e","v","i","l">>] }

\* Arguments of the Post.create calls that come before the updates.
PostInputs ==
    { PostData(<<"h","e","l","l","o">>, <<"H","e","l","l","o">>, <<"A"," ","g","r","e","e","t","i","n","g">>, <<"h1">>, "u1", "u1"),
      PostData(<<"d","i","s","c","o","r","d","-","p","o","s","t">>, DiscordPost, <<"H","e","l","l","o">>, <<"h1">>, "u2", "u2") }

\* CURRENT_TIMESTAMP moves on.
Tick ==
    /\ db.now < MaxClock
    /\ db' = Db(db.now + 1, db.seq)
    /\ UNCHANGED <<posts, call, handled, pc, message, htmlContent, filename, grok,
                   analysis, caught, escaped, replies, createCalls, chatFailed,
                   serviceFailed, retryAttempt, util, limiter, loaded>>

\* A direct caller runs Post.findById(id) and keeps what it returns; null is
\* kept as no instance.
FindById(id) ==
    /\ loaded' = RowById(posts, id)
    /\ UNCHANGED <<posts, call, handled, pc, message, htmlContent, filename, grok,
                   analysis, caught, escaped, replies, createCalls, chatFailed,
                   serviceFailed, retryAttempt, util, limiter, db>>

\* The caller runs loaded.update(updateData).  A call that throws leaves the
\* table as it is; otherwise the row with the instance's id is updated, and
\* the caller goes on with the instance it had (keep) or with the returned one.
PostUpdate(updateData, keep) ==
    /\ loaded # NoRow
    /\ IF UpdateThrows(loaded, updateData)
       THEN UNCHANGED <<posts, loaded>>
       ELSE /\ posts' = [i \in 1..Len(posts) |->
                           IF posts[i].id = loaded.id
                           THEN UpdatedRow(posts[i], Updates(updateData))
                           ELSE posts[i]]
            /\ loaded' = IF keep \/ RowById(posts, loaded.id) = NoRow
                         THEN loaded
                         ELSE UpdatedRow(RowById(posts, loaded.id), Updates(updateData))
    /\ UNCHANGED <<call, handled, pc, message, htmlContent, filename, grok,
                   analysis, caught, escaped, replies, createCalls, chatFailed,
                   serviceFailed, retryAttempt, util, limiter, db>>

\* The caller runs loaded.delete(): DELETE FROM posts WHERE id = ?
PostDelete ==
    /\ loaded # NoRow
    /\ posts' = SelectSeq(posts, LAMBDA row : row.id # loaded.id)
    /\ UNCHANGED <<call, handled, pc, message, htmlContent, filename, grok,
                   analysis, caught, escaped, replies, createCalls, chatFailed,
                   serviceFailed, retryAttempt, util, limiter, db, loaded>>

\* The callers that create the posts to update: two posts show whether an
\* update reaches another row than the one of its id.
PostCallers == { c \in DirectCallers : c <= 2 }

NextPost ==
    \/ \E c \in PostCallers :
          \/ \E data \in PostInputs : CallCreate(c, data)
          \/ CreateCheck(c)
          \/ CreateInsert(c)
    \/ Tick
    \/ \E id \in PostCallers : FindById(id)
    \/ \E updateData \in UpdateInputs, keep \in BOOLEAN : PostUpdate(updateData, keep)
    \/ PostDelete

SpecPost == Init /\ [][NextPost]_vars

\* ------------------------------------------------------------------- C25
\* The columns of a row that are fixed when Post.create inserts it.
Identity(row) ==
    <<row.id, row.slug, row.discord_user_id, row.discord_username, row.created_at>>

\* C25: once a post is created no operation of the Post model changes its
\* slug: every step keeps the id, slug, discord_user_id, discord_username
\* and created_at of every row that stays in the table, so Post.update
\* changes title, description, html_content and updated_at only, and after
\* any number of updates these columns have the values of the insert.
C25_UpdateKeepsIdentity ==
    [][\A i \in 1..Len(posts) :
          RowById(posts', posts[i].id) # NoRow
              => Identity(RowById(posts', posts[i].id)) = Identity(posts[i])]_vars

\* A post was updated after the second it was created in, by a call that
\* also asked for another slug, and its slug is the one it was created with.
C25_Witness ==
    \E i \in 1..Len(posts) :
        /\ posts[i].description = <<"N","e","w","e","r">>
        /\ posts[i].updated_at > posts[i].created_at
        /\ posts[i].slug = <<"h","e","l","l","o">>

\* ------------------------------------------- extractFromCodeBlock, called
\* Largest number of code spans in the text of a message.
MaxBlocks == 2

BlockKinds == {"html", "fence", "inline"}

\* What a code span holds: nothing, text without a tag, one tag in 14
\* characters, two tags in 39 characters.
BlockContents == { <<>>, <<"text">>, <<"h1">>, <<"h1", "script">> }

CodeBlocks == { Block(kind, content) : kind \in BlockKinds, content \in BlockContents }

RECURSIVE BlockSeqs(_)
BlockSeqs(n) ==
    IF n = 0 THEN { <<>> }
    ELSE BlockSeqs(n - 1)
           \cup { Append(blocks, b) : blocks \in BlockSeqs(n - 1), b \in CodeBlocks }

\* extractFromCodeBlock(message.content) has been called for a message
\* without attachment.
InitExtract ==
    /\ HandlerIdle
    /\ limiter = NoLimiter
    /\ \E blocks \in BlockSeqs(MaxBlocks) :
          util = UtilCall("extractFromCodeBlock", blocks, "called", <<>>)

\* extractFromCodeBlock returns; <<>> is null.
ExtractReturns ==
    /\ util.fn = "extractFromCodeBlock"
    /\ util.at = "called"
    /\ util' = [util EXCEPT !.at = "returned",
                            !.output = extractFromCodeBlock(util.input)]
    /\ UNCHANGED <<handlerVars, limiter>>

NextExtract == ExtractReturns

SpecExtract == InitExtract /\ [][NextExtract]_vars

\* ------------------------------------------------------------------- C26
\* The candidates of a text in the order of the claim: the first fence
\* tagged html, the first fence of any kind, the inline spans in order.
Candidates(blocks) ==
    (IF FirstBlock(blocks, {"html"}, 1) # 0
     THEN <<blocks[FirstBlock(blocks, {"html"}, 1)].content>> ELSE <<>>)
    \o (IF FirstBlock(blocks, {"html", "fence"}, 1) # 0
        THEN <<blocks[FirstBlock(blocks, {"html", "fence"}, 1)].content>> ELSE <<>>)
    \o [i \in 1..Len(InlineBlocks(blocks)) |-> InlineBlocks(blocks)[i].content]

HasHtmlTag(content) == \E i \in 1..Len(content) : content[i] \in TagNodes

\* The candidates that hold at least one HTML tag.
TaggedCandidates(blocks) == SelectSeq(Candidates(blocks), HasHtmlTag)

Extracted == util.fn = "extractFromCodeBlock" /\ util.at = "returned"

\* C26: extractFromCodeBlock returns the first candidate, in the order html
\* fence, first fence, inline spans, whose content holds at least one HTML
\* tag, and returns no content only when no candidate holds one.
C26_FirstTaggedCandidate ==
    Extracted =>
        IF TaggedCandidates(util.input) = <<>>
        THEN util.output = <<>>
        ELSE util.output = Head(TaggedCandidates(util.input))

\* ------------------------------------------------- extractContent, called
\* { success, error } and { success, data: { content, type, filename } }:
\* a result without error has error <<>>, one without data has content <<>>.
ExtractionResult(success, error, content, type, name) ==
    [success |-> success, error |-> error, content |-> content, type |-> type,
     filename |-> name]

FailureResult(error) == ExtractionResult(FALSE, error, <<>>, None, <<>>)

\* The errors array of validateAttachment.
AttachmentErrors(attachment) ==
    (IF attachment.tooLarge
     THEN <<"File is too large (30 MB). Maximum size is 25 MB">> ELSE <<>>)
    \o (IF getFileExtension(attachment.name) \notin AllowedExtensions
        THEN <<"File type not supported (">> \o getFileExtension(attachment.name)
                \o <<"). Allowed types: .html, .htm, .xhtml">>
        ELSE <<>>)
    \o (IF attachment.name = <<>> \/ IsBlank(attachment.name)
        THEN <<"File has no name">> ELSE <<>>)

\* A value axios.get rejects with that is no Error object: it has neither
\* code nor message.
ThrownString == Err("string", None, <<>>, <<>>)

\* new TypeError for error.message.includes when error.message is undefined.
IncludesTypeError ==
    Err("TypeError", None, <<"Cannot read properties of undefined (reading 'includes')">>, <<>>)

\* How the download of the attachment ends: not at all, rejected with an
\* error, or resolved with a body.
Download(kind, error, body) == [kind |-> kind, error |-> error, body |-> body]

NoDownload == Download(None, NoError, <<>>)

\* A call extractContent(message), the way its download ended, and its result.
ContentCall(message_, download, at, output) ==
    [fn |-> "extractContent", input |-> [message |-> message_, download |-> download],
     at |-> at, output |-> output]

AttachmentNames == { PageHtml, NotesTxt, <<>>, <<"a",".","H","T","M">> }

\* Messages handed to extractContent: with an attachment, or with code spans.
ContentMessages ==
    { Message(TRUE, Attachment(name, tooLarge), <<>>, "u1") :
        name \in AttachmentNames, tooLarge \in BOOLEAN }
    \cup { Message(TRUE, NoAttachment, blocks, "u1") : blocks \in BlockSeqs(MaxBlocks) }

InitContent ==
    /\ HandlerIdle
    /\ limiter = NoLimiter
    /\ \E m \in ContentMessages :
          util = ContentCall(m, NoDownload, "called", FailureResult(<<>>))

\* extractContent up to its first await or, without one, to its return.
ContentStart ==
    /\ util.fn = "extractContent"
    /\ util.at = "called"
    /\ LET m == util.input.message
           c == extractFromCodeBlock(m.blocks)
       IN  util' =
             IF m.attachment.present
             THEN IF validateAttachment(m.attachment)
                  THEN [util EXCEPT !.at = "download"]
                  ELSE [util EXCEPT !.at = "returned",
                                    !.output = FailureResult(AttachmentErrors(m.attachment))]
             ELSE IF c # <<>>
             THEN [util EXCEPT !.at = "returned",
                               !.output = ExtractionResult(TRUE, <<>>, c, "codeblock", <<>>)]
             ELSE [util EXCEPT !.at = "returned", !.output = FailureResult(NoContentText)]
    /\ UNCHANGED <<handlerVars, limiter>>

\* axios.get rejects.  The catch block of extractFromAttachment returns a
\* failure, or throws when the value has no message; that TypeError is
\* caught by extractContent.
ContentDownloadFails(error) ==
    /\ util.fn = "extractContent"
    /\ util.at = "download"
    /\ util' = [util EXCEPT
                  !.at = "returned",
                  !.input.download = Download("rejected", error, <<>>),
                  !.output =
                     IF error.name = "string"
                     THEN FailureResult(<<"Failed to extract content: ">>
                                          \o IncludesTypeError.message)
                     ELSE FailureResult(attachmentErrorText(error))]
    /\ UNCHANGED <<handlerVars, limiter>>

\* axios.get resolves with response.data = body.
ContentDownloadDone(body) ==
    /\ util.fn = "extractContent"
    /\ util.at = "download"
    /\ util' = [util EXCEPT
                  !.at = "returned",
                  !.input.download = Download("resolved", NoError, body),
                  !.output =
                     IF body = <<>> THEN FailureResult(<<"Downloaded file is empty">>)
                     ELSE IF ~isValidHtml(body)
                     THEN FailureResult(<<"File does not contain valid HTML content">>)
                     ELSE ExtractionResult(TRUE, <<>>, body, "attachment",
                                           util.input.message.attachment.name)]
    /\ UNCHANGED <<handlerVars, limiter>>

NextContent ==
    \/ ContentStart
    \/ \E error \in DownloadErrors \cup {ThrownString} : ContentDownloadFails(error)
    \/ \E body \in DownloadBodies : ContentDownloadDone(body)

SpecContent == InitContent /\ [][NextContent]_vars

\* ------------------------------------------------------------------- C27
ContentReturned == util.fn = "extractContent" /\ util.at = "returned"

\* The attachment was rejected, its download was rejected, or its body was
\* empty.
AttachmentFailed ==
    /\ util.input.message.attachment.present
    /\ \/ ~validateAttachment(util.input.message.attachment)
       \/ util.input.download.kind = "rejected"
       \/ util.input.download.kind = "resolved" /\ util.input.download.body = <<>>

\* C27: extractContent never throws; every failure of attachment extraction
\* (size, extension, network error, timeout, over-size body, empty file) is
\* returned as a failure result with a cause in words and no content, and no
\* result holds content together with a failure.
C27_FailuresAreResults ==
    /\ util.fn = "extractContent" => util.at \in {"called", "download", "returned"}
    /\ ContentReturned /\ AttachmentFailed => ~util.output.success
    /\ ContentReturned /\ ~util.output.success =>
          /\ util.output.error # <<>>
          /\ \A i \in 1..Len(util.output.error) : util.output.error[i] # ""
          /\ util.output.content = <<>>
    /\ ContentReturned /\ util.output.success =>
          util.output.error = <<>> /\ util.output.content # <<>>

\* The download of a valid attachment timed out and the result names it.
C27_Witness ==
    /\ ContentReturned
    /\ util.input.download.kind = "rejected"
    /\ util.input.download.error.code = "ECONNABORTED"
    /\ util.output = FailureResult(<<"Failed to download file: Request timeout">>)

\* ------------------------------- src/utils/security.js, CSRFTokenManager
\* this.tokenExpiry, 24 hours in milliseconds.
TokenExpiry == 86400000

\* A manager: its Map tokens, the last value Date.now() gave it, the token
\* generateToken returned last for each session with the time of that call,
\* and the last call made of it.
CsrfManager(tokens, now, issued, last) ==
    [fn |-> "CSRFTokenManager", tokens |-> tokens, now |-> now, issued |-> issued,
     last |-> last]

CsrfCall(op, sessionId, token, valid) ==
    [op |-> op, sessionId |-> sessionId, token |-> token, valid |-> valid]

NoCsrfCall == CsrfCall(None, "", "", FALSE)

\* { token, expiresAt }
TokenData(token, expiresAt) == [token |-> token, expiresAt |-> expiresAt]

\* A check that takes no token for expired.
TokenExpiredNever(now, tokenData) == FALSE

\* Date.now() > tokenData.expiresAt
TokenExpired(now, tokenData) == now > tokenData.expiresAt

\* cleanExpiredTokens()
cleanExpiredTokens(tokens, now) ==
    [sessionId \in { k \in DOMAIN tokens : ~TokenExpired(now, tokens[k]) } |->
        tokens[sessionId]]

\* this.tokens.delete(sessionId)
MapDelete(map, key) == [k \in DOMAIN map \ {key} |-> map[k]]

SessionIds == {"session-123", "session-456"}

\* Values generateRandomToken() returns.
RandomTokens == {"t1", "t2"}

\* Tokens handed to validateToken: the generated ones and one that never was.
TokenInputs == RandomTokens \cup {"invalid-token"}

\* Values of Date.now(): a token issued at 0 or 1 is exactly 24 hours old
\* at TokenExpiry or TokenExpiry + 1.
CsrfTimes == {0, 1, TokenExpiry, TokenExpiry + 1}

\* new CSRFTokenManager()
InitCsrf ==
    /\ HandlerIdle
    /\ limiter = NoLimiter
    /\ util = CsrfManager(EmptyMap, 0, EmptyMap, NoCsrfCall)

\* generateToken(sessionId) at Date.now() = now, the random token being token.
GenerateToken(sessionId, token, now) ==
    /\ util.fn = "CSRFTokenManager"
    /\ now >= util.now
    /\ util' = CsrfManager(
                  cleanExpiredTokens(
                      MapSet(util.tokens, sessionId, TokenData(token, now + TokenExpiry)),
                      now),
                  now,
                  MapSet(util.issued, sessionId, [token |-> token, at |-> now]),
                  CsrfCall("generateToken", sessionId, token, FALSE))
    /\ UNCHANGED <<handlerVars, limiter>>

\* validateToken(sessionId, token) at Date.now() = now.
ValidateToken(sessionId, token, now) ==
    /\ util.fn = "CSRFTokenManager"
    /\ now >= util.now
    /\ util' =
         IF sessionId \notin DOMAIN util.tokens
         THEN CsrfManager(util.tokens, now, util.issued,
                          CsrfCall("validateToken", sessionId, token, FALSE))
         ELSE IF TokenExpired(now, util.tokens[sessionId])
         THEN CsrfManager(MapDelete(util.tokens, sessionId), now, util.issued,
                          CsrfCall("validateToken", sessionId, token, FALSE))
         ELSE CsrfManager(util.tokens, now, util.issued,
                          CsrfCall("validateToken", sessionId, token,
                                   util.tokens[sessionId].token = token))
    /\ UNCHANGED <<handlerVars, limiter>>

NextCsrf ==
    \E sessionId \in SessionIds, now \in CsrfTimes :
        \/ \E token \in RandomTokens : GenerateToken(sessionId, token, now)
        \/ \E token \in TokenInputs : ValidateToken(sessionId, token, now)

SpecCsrf == InitCsrf /\ [][NextCsrf]_vars

\* ------------------------------------------------------------------- C28
\* The last call was a validateToken that returned true.
Validated ==
    /\ util.fn = "CSRFTokenManager"
    /\ util.last.op = "validateToken"
    /\ util.last.valid

\* The token of the last call is the one generateToken returned last for the
\* session of the call.
IsCurrentToken ==
    /\ util.last.sessionId \in DOMAIN util.issued
    /\ util.issued[util.last.sessionId].token = util.last.token

\* Milliseconds since that token was issued.
TokenAge == util.now - util.issued[util.last.sessionId].at

\* C28 as stated: validateToken returns true only for the token issued last
\* for the session, and only when less than 24 hours have passed since.
C28_ValidOnlyIfCurrent ==
    Validated => IsCurrentToken /\ TokenAge < TokenExpiry

\* C28: validateToken(session, token) returns true only if token is the token
\* generateToken returned last for that session and no more than 24 hours
\* have passed since it was issued; tokens of other sessions, superseded
\* tokens and tokens older than 24 hours are rejected.
C28_ValidOnlyIfCurrentUpToExpiry ==
    Validated => IsCurrentToken /\ TokenAge <= TokenExpiry

\* A token is accepted when it is exactly 24 hours old, after another token
\* of the session was superseded by it.
C28_Witness ==
    /\ Validated
    /\ IsCurrentToken
    /\ TokenAge = TokenExpiry
    /\ util.last.token = "t2"
    /\ util.issued[util.last.sessionId].at = 1

\* ------------------------------------------------------------------- C29
\* A run of handlePoopCommand on a command has ended.
RunOver == pc = "idle" /\ handled > 0 /\ message.command

\* The INSERT of this run's Post.create added its row: Post.create returned,
\* or it threw at the read of result.lastID, which comes after the INSERT.
StoredByRun ==
    \/ call[HandlerCall].at = "returned"
    \/ call[HandlerCall].at = "threw" /\ call[HandlerCall].error = LastIdTypeError

SuccessSent == \E i \in 1..Len(replies) : replies[i] = SuccessText

\* C29: a run of handlePoopCommand sends the success reply if and only if
\* its Post.create stored the post; a run that sent a failure message or
\* ended with an error stored no post.
C29_SuccessIffStored ==
    RunOver => (SuccessSent <=> StoredByRun)

\* ------------------------------------------------------------------- C30
\* The slugs of this call that existsCallback was called with and answered
\* false for.
ProbedFree ==
    { util.probed[i] : i \in { j \in 1..Len(util.probed) :
                                  util.probed[j] \notin util.input.exists } }

\* C30: the slug generateUniqueSlug returns is one that existsCallback was
\* called with, and answered false for, during that call.
C30_ReturnedSlugProbedFree ==
    UniqueReturned => util.output \in ProbedFree

====
